---- MODULE Spec2Model ----
(***************************************************************************)
(* Model of the vector-db repository: the chunking engine (chunking.py,    *)
(* text_processor.py, pdf_processor.py), the query-time result fusion      *)
(* (main.py cmd_search, reranker.py, vector_store.py), the command line    *)
(* (main.py), the embedding batches (embeddings.py) and the collection of  *)
(* a database (vector_store.py).                                           *)
(*                                                                         *)
(* A Python str is modelled as a sequence of one-character strings, so     *)
(* that splitting, joining, stripping, case folding and regular-expression *)
(* matching are computed character by character as the code computes them. *)
(* Scores are integers in hundredths (0.05 is 5).                          *)
(***************************************************************************)
EXTENDS Integers, Sequences, FiniteSets, TLC

VARIABLES
    text,           \* chunking: the raw text handed to the splitter
    chunk_size,     \* chunking: token budget (config.CHUNK_SIZE)
    chunk_overlap,  \* chunking: overlap budget (config.CHUNK_OVERLAP)
    processor,      \* chunking: "text" (chunking.py / TextProcessor) or "pdf"
    chunks,         \* chunking: result of the recursive splitter
    overlapped,     \* chunking: result of add_overlap
    cpc,            \* chunking: position of the ingestion pipeline
    query,          \* search: args.query
    top_k,          \* search: args.top_k
    rerank,         \* search: args.rerank (Cohere)
    rerank_local,   \* search: args.rerank_local (FlashRank)
    rerank_bge,     \* search: args.rerank_bge (BGE)
    keyword_boost,  \* search: args.keyword_boost
    collection,     \* search: what the vector index holds, nearest first
    fetch_k,        \* search: the number of candidates asked for
    results,        \* search: the local variable results of cmd_search
    rerank_input,   \* search: the list handed to reranker.rerank, as it is after the call
    rerank_top_n,   \* search: the top_n handed to reranker.rerank (0: no call)
    pre_boost,      \* search: results as handed to _apply_keyword_boost
    warning,        \* search: whether "Warning: Reranking disabled" was printed
    output,         \* search: the results printed
    exit_code,      \* search: what cmd_search returned (-1: nothing yet)
    raised,         \* search: the exception that left cmd_search ("none": none)
    spc,            \* search: position in cmd_search
    document,       \* sections: the text handed to split_by_sections
    sections,       \* sections: what split_by_sections returned
    secpc,          \* sections: "start" before the call, "done" after it
    kt_text,        \* key terms: the text handed to extract_key_terms
    kt_locals,      \* key terms: the locals of extract_key_terms and what it returned
    ktpc,           \* key terms: "start" before the call, "done" after it
    id_string,      \* identifiers: a string, taken as a query and as chunk text
    id_query_terms, \* identifiers: the terms the keyword boost extracts from it
    id_registers,   \* identifiers: the register names extract_key_terms finds in it
    idpc,           \* identifiers: which of the two has been computed
    run_kind,       \* run: "text" (process_file) or "pdf" (process_pdf)
    run_source,     \* run: file_path.name, the document's identifier
    run_units,      \* run: the sections, or the texts of the pages, of the document
    extra_metadata, \* run: the extra_metadata the caller passed
    all_chunks,     \* run: the chunks emitted so far
    chunk_index,    \* run: the local variable chunk_index
    run_next,       \* run: the section or page the loop is at
    runpc,          \* run: "loop" or "returned"
    databases,      \* command line: the databases that exist, each with its collection
    databases_before, \* command line: the databases before the last invocation
    command,        \* command line: the last invocation
    status,         \* command line: the exit status of the last invocation
    emb_texts,      \* embedding: the texts handed to embed
    all_embeddings, \* embedding: the local variable all_embeddings
    emb_i,          \* embedding: the loop variable i
    submitted,      \* embedding: the batches sent to the provider, in the order sent
    progress,       \* embedding: the calls of progress_callback
    embpc,          \* embedding: "loop" or "returned"
    store_docs,     \* collection: the id of every stored chunk, with the chunk's source
    store_before,   \* collection: the collection before the last operation
    new_ids,        \* collection: the ids add_documents computed last
    store_op,       \* collection: the last operation
    raw_text,       \* cleaning: the text handed to clean_text
    cleaned,        \* cleaning: what clean_text returned
    cleaned_again,  \* cleaning: what clean_text returned for cleaned
    cleanpc         \* cleaning: "start", "cleaned" or "recleaned"

searchVars == <<query, top_k, rerank, rerank_local, rerank_bge, keyword_boost,
                collection, fetch_k, results, rerank_input, rerank_top_n,
                pre_boost, warning, output, exit_code, raised, spc>>

chunkVars == <<text, chunk_size, chunk_overlap, processor, chunks, overlapped, cpc>>

sectionVars == <<document, sections, secpc>>

keyTermVars == <<kt_text, kt_locals, ktpc>>

identifierVars == <<id_string, id_query_terms, id_registers, idpc>>

runVars == <<run_kind, run_source, run_units, extra_metadata, all_chunks, chunk_index,
             run_next, runpc>>

cliVars == <<databases, databases_before, command, status>>

embedVars == <<emb_texts, all_embeddings, emb_i, submitted, progress, embpc>>

storeVars == <<store_docs, store_before, new_ids, store_op>>

cleanVars == <<raw_text, cleaned, cleaned_again, cleanpc>>

\* the variables outside each part of the model
nonChunkVars == <<searchVars, sectionVars, keyTermVars, identifierVars, runVars, cliVars,
    embedVars, storeVars, cleanVars>>
nonSearchVars == <<chunkVars, sectionVars, keyTermVars, identifierVars, runVars, cliVars,
    embedVars, storeVars, cleanVars>>
nonSectionVars == <<chunkVars, searchVars, keyTermVars, identifierVars, runVars, cliVars,
    embedVars, storeVars, cleanVars>>
nonKeyTermVars == <<chunkVars, searchVars, sectionVars, identifierVars, runVars, cliVars,
    embedVars, storeVars, cleanVars>>
nonIdentifierVars == <<chunkVars, searchVars, sectionVars, keyTermVars, runVars, cliVars,
    embedVars, storeVars, cleanVars>>
nonRunVars == <<chunkVars, searchVars, sectionVars, keyTermVars, identifierVars, cliVars,
    embedVars, storeVars, cleanVars>>
nonCliVars == <<chunkVars, searchVars, sectionVars, keyTermVars, identifierVars, runVars,
    embedVars, storeVars, cleanVars>>
nonEmbedVars == <<chunkVars, searchVars, sectionVars, keyTermVars, identifierVars, runVars,
    cliVars, storeVars, cleanVars>>
nonStoreVars == <<chunkVars, searchVars, sectionVars, keyTermVars, identifierVars, runVars,
    cliVars, embedVars, cleanVars>>
nonCleanVars == <<chunkVars, searchVars, sectionVars, keyTermVars, identifierVars, runVars,
    cliVars, embedVars, storeVars>>

----------------------------------------------------------------------------
(* Bounds of the chunking model *)

MaxLen == 5          \* longest input text, in characters
MaxBudget == 2       \* largest token budget
MaxOverlap == 3      \* largest overlap budget

(* Bounds of the search model *)

MaxCands == 3        \* most candidates handed to the keyword boost alone
MaxDocs == 2         \* most documents in the collection of a whole search
MaxTopK == 2         \* largest --top-k

(* Bounds of the text-processor model *)

MaxLines == 4        \* most lines of a document handed to split_by_sections
MaxFragments == 4    \* most pieces of a chunk text handed to extract_key_terms
MaxTermLen == 5      \* longest string handed to both identifier patterns
MaxUnits == 3        \* most sections or pages of a document in one ingestion run
MaxChunks == 2       \* most chunks of one document a database holds
MaxTexts == 201      \* most texts handed to embed
MaxStored == 4       \* most chunks a collection holds
MaxCleanLines == 4   \* most lines of a text handed to clean_text

----------------------------------------------------------------------------
(* Characters and Python str helpers *)

NL == "\n"
LowerCase == {"a","b","c","d","e","f","g","h","i","j","k","l","m",
              "n","o","p","q","r","s","t","u","v","w","x","y","z"}
UpperCase == {"A","B","C","D","E","F","G","H","I","J","K","L","M",
              "N","O","P","Q","R","S","T","U","V","W","X","Y","Z"}
Letters == LowerCase \cup UpperCase
Digits == {"0","1","2","3","4","5","6","7","8","9"}
Spaces == {" ", NL, "\t"}
Newlines == {NL}

Min(S) == CHOOSE x \in S : \A y \in S : x <= y
Max(S) == CHOOSE x \in S : \A y \in S : x >= y

\* s[i:] of Python, 1-based: the characters from position i on
From(s, i) == SubSeq(s, i, Len(s))

\* first position >= i of s holding a character outside S (Len(s)+1 if none)
RunEnd(s, i, S) ==
    LET stops == {j \in i..Len(s) : s[j] \notin S}
    IN  IF stops = {} THEN Len(s) + 1 ELSE Min(stops)

\* str.find(sep): first position where sep occurs in s, 0 if it does not
Find(s, sep) ==
    LET hits == {i \in 1..(Len(s) - Len(sep) + 1) : SubSeq(s, i, i + Len(sep) - 1) = sep}
    IN  IF hits = {} THEN 0 ELSE Min(hits)

\* sep in s
Contains(s, sep) == Find(s, sep) # 0

\* str.split(sep): the pieces between non-overlapping occurrences of sep,
\* scanned left to right, empty pieces kept
RECURSIVE StrSplit(_, _)
StrSplit(s, sep) ==
    LET p == Find(s, sep)
    IN  IF p = 0 THEN <<s>>
        ELSE <<SubSeq(s, 1, p - 1)>> \o StrSplit(From(s, p + Len(sep)), sep)

\* str.strip(): leading and trailing whitespace removed
Strip(s) ==
    LET solid == {i \in 1..Len(s) : s[i] \notin Spaces}
    IN  IF solid = {} THEN <<>> ELSE SubSeq(s, Min(solid), Max(solid))

\* sep.join(parts)
RECURSIVE Join(_, _)
Join(sep, parts) ==
    IF parts = <<>> THEN <<>>
    ELSE IF Len(parts) = 1 THEN parts[1]
    ELSE parts[1] \o sep \o Join(sep, Tail(parts))

----------------------------------------------------------------------------
(* The tokenizer: tiktoken cl100k_base.  The library is not part of the    *)
(* repository; it is modelled by its pre-tokenisation pattern              *)
(*   [^\r\n\p{L}\p{N}]?\p{L}+ | \p{N}{1,3} | ?[^\s\p{L}\p{N}]+[\r\n]*     *)
(*   | \s*[\r\n]+ | \s+(?!\S) | \s+                                        *)
(* with every pre-token taken as one token.  A token is the piece of text  *)
(* it stands for, so decode is concatenation and decode(encode(t)) = t.    *)
(* Token counts are not additive under concatenation (" a" is one token,   *)
(* " " followed by "a" is two), as with the real tokenizer.                *)

IsPunct(c) == c \notin (Letters \cup Digits \cup Spaces)

\* position just past the pre-token of s that starts at position i
PreTokEnd(s, i) ==
    LET c == s[i]
        n == Len(s)
        wsEnd == RunEnd(s, i, Spaces)
        nls == {j \in i..(wsEnd - 1) : s[j] \in Newlines}
        j4 == IF c = " " THEN i + 1 ELSE i
    IN  IF c \in Letters THEN RunEnd(s, i, Letters)
        ELSE IF c \notin (Newlines \cup Digits) /\ i + 1 <= n /\ s[i + 1] \in Letters
            THEN RunEnd(s, i + 1, Letters)
        ELSE IF c \in Digits THEN Min({RunEnd(s, i, Digits), i + 3})
        ELSE IF j4 <= n /\ IsPunct(s[j4])
            THEN RunEnd(s, RunEnd(s, j4, {x \in {s[k] : k \in j4..n} : IsPunct(x)}), Newlines)
        ELSE IF nls # {} THEN Max(nls) + 1
        ELSE IF wsEnd = n + 1 THEN wsEnd
        ELSE IF wsEnd - i >= 2 THEN wsEnd - 1
        ELSE wsEnd

\* _tokenizer.encode(text)
RECURSIVE EncodeFrom(_, _)
EncodeFrom(s, i) ==
    IF i > Len(s) THEN <<>>
    ELSE LET e == PreTokEnd(s, i)
         IN  <<SubSeq(s, i, e - 1)>> \o EncodeFrom(s, e)

encode(s) == EncodeFrom(s, 1)

\* _tokenizer.decode(tokens)
decode(tokens) == Join(<<>>, tokens)

count_tokens(s) == Len(encode(s))

----------------------------------------------------------------------------
(* RecursiveSplitter: chunking.split_text_recursive, which                 *)
(* TextProcessor._split_text_recursive repeats line for line               *)
(* (text_processor.py 128-166), and PDFProcessor.split_text_recursive.     *)

DefaultSeparators == << <<NL, NL>>, <<NL>>, <<".", " ">>, <<" ">> >>

RECURSIVE split_text_recursive(_, _, _)
RECURSIVE SplitLoopFlat(_, _, _, _, _, _)

\* the loop with the recursion on an oversized segment left out: the segment
\* becomes the running chunk as it is
SplitLoopFlat(splits, k, acc, current_chunk, size, separators) ==
    IF k > Len(splits)
    THEN IF current_chunk # <<>> THEN Append(acc, current_chunk) ELSE acc
    ELSE LET split == splits[k]
             test_chunk == IF current_chunk # <<>>
                           THEN current_chunk \o separators[1] \o split
                           ELSE split
             flushed == IF current_chunk # <<>> THEN Append(acc, current_chunk) ELSE acc
         IN  IF count_tokens(test_chunk) <= size
             THEN SplitLoopFlat(splits, k + 1, acc, test_chunk, size, separators)
             ELSE SplitLoopFlat(splits, k + 1, flushed, split, size, separators)

RECURSIVE SplitLoop(_, _, _, _, _, _)

\* chunking.py 44-65: the for loop over splits from index k on, with the
\* chunks collected so far (acc) and the running chunk, then the final flush
SplitLoop(splits, k, acc, current_chunk, size, separators) ==
    IF k > Len(splits)
    THEN IF current_chunk # <<>> THEN Append(acc, current_chunk) ELSE acc
    ELSE LET split == splits[k]
             test_chunk == IF current_chunk # <<>>
                           THEN current_chunk \o separators[1] \o split
                           ELSE split
             flushed == IF current_chunk # <<>> THEN Append(acc, current_chunk) ELSE acc
         IN  IF count_tokens(test_chunk) <= size
             THEN SplitLoop(splits, k + 1, acc, test_chunk, size, separators)
             ELSE IF count_tokens(split) > size
                  THEN SplitLoop(splits, k + 1,
                                 flushed \o split_text_recursive(split, size, Tail(separators)),
                                 <<>>, size, separators)
                  ELSE SplitLoop(splits, k + 1, flushed, split, size, separators)

\* chunking.py 19-65
split_text_recursive(t, size, separators) ==
    IF separators = <<>> \/ count_tokens(t) <= size
    THEN IF Strip(t) # <<>> THEN <<t>> ELSE <<>>
    ELSE SplitLoop(StrSplit(t, separators[1]), 1, <<>>, <<>>, size, separators)

RECURSIVE pdf_split_text_recursive(_, _, _)
RECURSIVE PdfSplitLoop(_, _, _, _, _, _)

\* pdf_processor.py 55-76
PdfSplitLoop(splits, k, acc, current_chunk, size, separators) ==
    IF k > Len(splits)
    THEN IF current_chunk # <<>> THEN Append(acc, current_chunk) ELSE acc
    ELSE LET split == splits[k]
             test_chunk == IF current_chunk # <<>>
                           THEN current_chunk \o separators[1] \o split
                           ELSE split
             flushed == IF current_chunk # <<>> THEN Append(acc, current_chunk) ELSE acc
         IN  IF count_tokens(test_chunk) <= size
             THEN PdfSplitLoop(splits, k + 1, acc, test_chunk, size, separators)
             ELSE IF count_tokens(split) > size
                  THEN PdfSplitLoop(splits, k + 1,
                                    flushed \o pdf_split_text_recursive(split, size, Tail(separators)),
                                    <<>>, size, separators)
                  ELSE PdfSplitLoop(splits, k + 1, flushed, split, size, separators)

\* pdf_processor.py 38-76: no early return for a text within budget, and the
\* exhausted hierarchy returns the text whatever it holds
pdf_split_text_recursive(t, size, separators) ==
    IF separators = <<>>
    THEN <<t>>
    ELSE PdfSplitLoop(StrSplit(t, separators[1]), 1, <<>>, <<>>, size, separators)

----------------------------------------------------------------------------
(* OverlapInjector: chunking.add_overlap, repeated by                      *)
(* TextProcessor.add_overlap (text_processor.py 222-254) and               *)
(* PDFProcessor.create_chunks_with_overlap (pdf_processor.py 78-110).      *)

\* seq[start:] of Python for an int start (0-based, negative from the end)
PySliceFrom(seq, start) ==
    LET n == Len(seq)
        lo == IF start < 0 THEN Max({n + start, 0}) ELSE Min({start, n})
    IN  SubSeq(seq, lo + 1, n)

\* seq[:stop] of Python for an int stop
PySliceTo(seq, stop) ==
    LET n == Len(seq)
        hi == IF stop < 0 THEN Max({n + stop, 0}) ELSE Min({stop, n})
    IN  SubSeq(seq, 1, hi)

Marker == <<"[", ".", ".", ".", "]">>
ParaBreak == <<NL, NL>>

\* chunking.py 86-91: the text taken from the preceding chunk
PrevOverlapText(prev, half_overlap) ==
    Strip(decode(PySliceFrom(encode(prev), 0 - half_overlap)))

\* chunking.py 96-101: the text taken from the succeeding chunk
NextOverlapText(next, half_overlap) ==
    Strip(decode(PySliceTo(encode(next), half_overlap)))

\* chunking.py 83-101: the list parts built for chunk i (1-based here)
OverlapParts(cs, i, half_overlap) ==
    LET before == IF i > 1 THEN PrevOverlapText(cs[i - 1], half_overlap) ELSE <<>>
        after == IF i < Len(cs) THEN NextOverlapText(cs[i + 1], half_overlap) ELSE <<>>
    IN  (IF before # <<>> THEN <<Marker \o <<" ">> \o before>> ELSE <<>>)
        \o <<cs[i]>>
        \o (IF after # <<>> THEN <<after \o <<" ">> \o Marker>> ELSE <<>>)

\* add_overlap joining the parts of a chunk with a single line break
add_overlap_one_break(cs, overlap) ==
    IF Len(cs) <= 1 THEN cs
    ELSE [i \in 1..Len(cs) |-> Join(<<NL>>, OverlapParts(cs, i, overlap \div 2))]

\* chunking.py 68-105
add_overlap(cs, overlap) ==
    IF Len(cs) <= 1 THEN cs
    ELSE [i \in 1..Len(cs) |-> Join(ParaBreak, OverlapParts(cs, i, overlap \div 2))]

----------------------------------------------------------------------------
(* The ingestion pipeline on one text: split, then add overlap             *)
(* (pdf_processor.py 128-129, text_processor.py 275-276).                  *)

TextChars == {"a", " ", ".", NL}
Texts == UNION {[1..n -> TextChars] : n \in 0..MaxLen}

ChunkInit ==
    /\ text \in Texts
    /\ chunk_size \in 1..MaxBudget
    /\ chunk_overlap \in 0..MaxOverlap
    /\ processor \in {"text", "pdf"}
    \* pdf_processor.py 28: a page with no text is never chunked
    /\ processor = "pdf" => Strip(text) # <<>>
    /\ chunks = <<>>
    /\ overlapped = <<>>
    /\ cpc = "start"

Split ==
    /\ cpc = "start"
    /\ chunks' = IF processor = "pdf"
                 THEN pdf_split_text_recursive(text, chunk_size, DefaultSeparators)
                 ELSE split_text_recursive(text, chunk_size, DefaultSeparators)
    /\ cpc' = "split"
    /\ UNCHANGED <<text, chunk_size, chunk_overlap, processor, overlapped>>
    /\ UNCHANGED nonChunkVars

AddOverlap ==
    /\ cpc = "split"
    /\ overlapped' = add_overlap(chunks, chunk_overlap)
    /\ cpc' = "done"
    /\ UNCHANGED <<text, chunk_size, chunk_overlap, processor, chunks>>
    /\ UNCHANGED nonChunkVars


----------------------------------------------------------------------------
(* Python str and re helpers of the keyword boost (vector_store.py)        *)

\* vector_store.py 146: the headline marker, as searched in the upper-cased text
RegisterDefinitionTag ==
    <<"R","E","G","I","S","T","E","R"," ","D","E","F","I","N","I","T","I","O",
          "N",":">>
\* vector_store.py 149: the annotation marker
KeyTag ==
    <<"[","K","E","Y",":">>
AFIO_MAPR ==
    <<"A","F","I","O","_","M","A","P","R">>
AFIO_MAPR2 ==
    <<"A","F","I","O","_","M","A","P","R","2">>
\* queries (args.query)
QueryMapr2 ==
    <<"A","F","I","O","_","M","A","P","R","2">>
QueryMapr ==
    <<"A","F","I","O","_","M","A","P","R">>
QueryBoth ==
    <<"a","f","i","o","_","m","a","p","r"," ","A","F","I","O","_","M","A","P",
          "R","2">>
QueryTwice ==
    <<"A","F","I","O","_","M","A","P","R","2"," ","o","r"," ","A","F","I","O",
          "_","M","A","P","R","2">>
QueryPlain ==
    <<"r","e","m","a","p"," ","b","i","t","s">>
\* candidate texts, in the forms the ingestion emits (text_processor.py 193, 219)
TextDefinition2 ==
    <<"R","E","G","I","S","T","E","R"," ","D","E","F","I","N","I","T","I","O",
          "N",":"," ","A","F","I","O","_","M","A","P","R","2"," ","-"," ","s",
          "p","e","c",NL,"[","K","E","Y",":"," ","A","F","I","O","_","M","A",
          "P","R","2","]",NL,NL,"b","i","t","s">>
TextKeyMapr ==
    <<"[","K","E","Y",":"," ","A","F","I","O","_","M","A","P","R","]",NL,NL,"A",
          "F","I","O","_","M","A","P","R"," ","r","e","m","a","p">>
TextBody2 ==
    <<"s","e","e"," ","a","f","i","o","_","m","a","p","r","2"," ","b","i","t",
          "s">>
TextBodyMapr ==
    <<"A","F","I","O","_","M","A","P","R"," ","o","n","l","y">>
TextOverview ==
    <<"[","K","E","Y",":"," ","O","V","E","R","V","I","E","W",":","r","e","g",
          "i","s","t","e","r","_","l","i","s","t","]",NL,NL,"A","F","I","O","_",
          "M","A","P","R"," ","A","F","I","O","_","M","A","P","R","2">>

ToUpper ==
    ("a" :> "A") @@ ("b" :> "B") @@ ("c" :> "C") @@ ("d" :> "D") @@
    ("e" :> "E") @@ ("f" :> "F") @@ ("g" :> "G") @@ ("h" :> "H") @@
    ("i" :> "I") @@ ("j" :> "J") @@ ("k" :> "K") @@ ("l" :> "L") @@
    ("m" :> "M") @@ ("n" :> "N") @@ ("o" :> "O") @@ ("p" :> "P") @@
    ("q" :> "Q") @@ ("r" :> "R") @@ ("s" :> "S") @@ ("t" :> "T") @@
    ("u" :> "U") @@ ("v" :> "V") @@ ("w" :> "W") @@ ("x" :> "X") @@
    ("y" :> "Y") @@ ("z" :> "Z")

\* str.upper()
Upper(s) == [i \in 1..Len(s) |-> IF s[i] \in LowerCase THEN ToUpper[s[i]] ELSE s[i]]

\* \w of re
WordChars == Letters \cup Digits \cup {"_"}

\* \b of re at position i of s: between s[i-1] and s[i] exactly one is a
\* word character (outside the string counts as a non-word character)
WordBoundary(s, i) ==
    LET before == i - 1 >= 1 /\ i - 1 <= Len(s) /\ s[i - 1] \in WordChars
        here == i >= 1 /\ i <= Len(s) /\ s[i] \in WordChars
    IN  before # here

\* [A-Z0-9_] of the term pattern
TermTail == UpperCase \cup Digits \cup {"_"}

\* vector_store.py 129: a match of \b([A-Z]{2,}[0-9]*_[A-Z0-9_]+)\b starting at
\* position i of s; the position just past the match the (greedy,
\* backtracking) engine finds first, 0 if it finds none
TermMatchEnd(s, i) ==
    LET n == Len(s)
        lettersEnd == RunEnd(s, i, UpperCase)
        ends == {e \in (i + 4)..(n + 1) :
                    \E p \in (i + 2)..lettersEnd :
                        \E q \in p..RunEnd(s, p, Digits) :
                            /\ q <= n
                            /\ s[q] = "_"
                            /\ e >= q + 2
                            /\ e <= RunEnd(s, q + 1, TermTail)
                            /\ WordBoundary(s, e)}
    IN  IF i <= n /\ WordBoundary(s, i) /\ ends # {} THEN Max(ends) ELSE 0

\* re.findall(term_pattern, s): the matches left to right, none overlapping
RECURSIVE FindAllTermsFrom(_, _)
FindAllTermsFrom(s, i) ==
    IF i > Len(s) THEN <<>>
    ELSE LET e == TermMatchEnd(s, i)
         IN  IF e # 0 THEN <<SubSeq(s, i, e - 1)>> \o FindAllTermsFrom(s, e)
             ELSE FindAllTermsFrom(s, i + 1)

\* vector_store.py 130
QueryTerms(q) == FindAllTermsFrom(Upper(q), 1)

\* positions of s where sub occurs
OccursAt(s, sub, i) == i >= 1 /\ i + Len(sub) - 1 <= Len(s) /\ SubSeq(s, i, i + Len(sub) - 1) = sub

\* re.search(term, s) without the word boundaries: any occurrence counts
SubstringSearch(term, s) == \E i \in 1..Len(s) : OccursAt(s, term, i)

\* vector_store.py 143-144: re.search(r'\b' + re.escape(term) + r'\b', s)
ExactSearch(term, s) ==
    \E i \in 1..Len(s) :
        /\ OccursAt(s, term, i)
        /\ WordBoundary(s, i)
        /\ WordBoundary(s, i + Len(term))

\* vector_store.py 146:
\* re.search(r'REGISTER DEFINITION:\s*' + re.escape(term) + r'\b', s)
DefinitionSearch(term, s) ==
    \E i \in 1..Len(s) :
        /\ OccursAt(s, RegisterDefinitionTag, i)
        /\ LET j0 == i + Len(RegisterDefinitionTag)
           IN  \E j \in j0..RunEnd(s, j0, Spaces) :
                   /\ OccursAt(s, term, j)
                   /\ WordBoundary(s, j + Len(term))

\* the boost of one term with the tiers of the headline and of the
\* annotation exchanged
TermBoostSwapped(term, result_text) ==
    LET text_upper == Upper(result_text)
    IN  IF ExactSearch(term, text_upper)
        THEN IF DefinitionSearch(term, text_upper) THEN 10
             ELSE IF Contains(result_text, KeyTag) /\ ExactSearch(term, text_upper) THEN 20
             ELSE 5
        ELSE 0

\* vector_store.py 140-153: what one query term adds to the boost of a result
TermBoost(term, result_text) ==
    LET text_upper == Upper(result_text)
    IN  IF ExactSearch(term, text_upper)
        THEN IF DefinitionSearch(term, text_upper) THEN 20
             ELSE IF Contains(result_text, KeyTag) /\ ExactSearch(term, text_upper) THEN 10
             ELSE 5
        ELSE 0

\* vector_store.py 138-153: boost = 0.0, then the loop over query_terms
RECURSIVE BoostOf(_, _)
BoostOf(query_terms, result_text) ==
    IF query_terms = <<>> THEN 0
    ELSE TermBoost(Head(query_terms), result_text) + BoostOf(Tail(query_terms), result_text)

\* d[k] = v on a dict
SetKey(d, k, v) == [x \in (DOMAIN d) \cup {k} |-> IF x = k THEN v ELSE d[x]]

\* a boosted result that also records the score it had as original_score
BoostedResultRecording(result, boost) ==
    SetKey(SetKey(SetKey(result, "original_score", result.score),
                  "score", result.score + boost), "keyword_boost", boost)

\* vector_store.py 155-158
BoostedResult(result, boost) ==
    SetKey(SetKey(result, "score", result.score + boost), "keyword_boost", boost)

\* an ascending sort followed by a reversal: descending, equal scores in
\* reverse input order
RECURSIVE SortAscendingReversed(_)
SortAscendingReversed(rs) ==
    IF rs = <<>> THEN <<>>
    ELSE LET done == SortAscendingReversed(SubSeq(rs, 1, Len(rs) - 1))
             x == rs[Len(rs)]
             k == Cardinality({i \in 1..Len(done) : done[i].score > x.score})
         IN  SubSeq(done, 1, k) \o <<x>> \o SubSeq(done, k + 1, Len(done))

\* vector_store.py 162: list.sort(key=score, reverse=True); Python's sort is
\* stable, also with reverse=True
RECURSIVE SortByScoreDescending(_)
SortByScoreDescending(rs) ==
    IF rs = <<>> THEN <<>>
    ELSE LET done == SortByScoreDescending(SubSeq(rs, 1, Len(rs) - 1))
             x == rs[Len(rs)]
             k == Cardinality({i \in 1..Len(done) : done[i].score >= x.score})
         IN  SubSeq(done, 1, k) \o <<x>> \o SubSeq(done, k + 1, Len(done))

\* vector_store.py 113-163
apply_keyword_boost(q, rs) ==
    LET query_terms == QueryTerms(q)
    IN  IF query_terms = <<>> THEN rs
        ELSE SortByScoreDescending(
                 [i \in 1..Len(rs) |-> BoostedResult(rs[i], BoostOf(query_terms, rs[i].text))])

----------------------------------------------------------------------------
(* Rerankers (reranker.py).  The scoring models are external: a rerank     *)
(* call returns relevance scores chosen freely, the candidates ordered by  *)
(* descending relevance.                                                   *)

RelevanceScores == {20, 90}

Take(seq, n) == SubSeq(seq, 1, Min({n, Len(seq)}))

Orders(n) == {f \in [1..n -> 1..n] : \A i, j \in 1..n : f[i] = f[j] => i = j}

\* the two assignments in the other order: original_score reads the score
\* after the relevance was written to it
RerankedResultLate(result, relevance) ==
    SetKey(SetKey(result, "score", relevance), "original_score", relevance)

\* reranker.py 57-59, 100-102, 151-153: a copy of the result with the
\* relevance as score and the score it had as original_score
RerankedResult(result, relevance) ==
    SetKey(SetKey(result, "original_score", result.score), "score", relevance)

\* main.py 144-149
Provider == IF rerank_bge THEN "bge" ELSE IF rerank_local THEN "local" ELSE "cohere"

\* the ways get_reranker(provider) can end (reranker.py 159-170): the
\* reranker, the ValueError of a missing COHERE_API_KEY (reranker.py 32-33),
\* the ImportError of a package that is not installed (reranker.py 29, 69,
\* 112-113), the OSError of a model that cannot be loaded (reranker.py 75,
\* 115-116)
ConstructOutcomes(provider) ==
    IF provider = "cohere" THEN {"ok", "ValueError", "ImportError"}
    ELSE {"ok", "ImportError", "OSError"}

\* the lists a rerank call of this provider may return for rs with top_n
\* (reranker.py 36-62, 77-105, 120-156)
RerankReturns(provider, rs, top_n) ==
    LET n == Len(rs)
    IN  {Take([k \in 1..n |-> RerankedResult(rs[order[k]], rel[order[k]])], top_n) :
            <<rel, order>> \in
                {ro \in [1..n -> RelevanceScores] \X Orders(n) :
                    /\ \A k \in 1..(n - 1) : ro[1][ro[2][k]] >= ro[1][ro[2][k + 1]]
                    \* reranker.py 145-146: BGE sorts the scored results itself
                    /\ provider = "bge" =>
                         \A k \in 1..(n - 1) :
                             ro[1][ro[2][k]] = ro[1][ro[2][k + 1]] => ro[2][k] < ro[2][k + 1]}}

----------------------------------------------------------------------------
(* cmd_search (main.py 112-182) *)

SimilarityScores == {50, 55}
Queries == {QueryMapr2, QueryMapr, QueryBoth, QueryTwice, QueryPlain}
CandTexts == {TextDefinition2, TextKeyMapr, TextBody2, TextBodyMapr, TextOverview}
SearchQueries == {QueryBoth, QueryPlain}
DocTexts == {TextDefinition2, TextBody2, TextKeyMapr}

\* main.py 136
do_rerank == rerank \/ rerank_local \/ rerank_bge

\* vector_store.py 96-109: a query result as a search result, the cosine
\* distance turned into a similarity
FormatResult(doc) == [text |-> doc.text, metadata |-> doc.metadata, score |-> 100 - doc.distance]

\* the index returns the nearest documents first (vector_store.py 89-94)
Collections ==
    {c \in UNION {[1..n -> [text : DocTexts, distance : {100 - x : x \in SimilarityScores}]] :
                     n \in 0..MaxDocs} :
        \A i \in 1..(Len(c) - 1) : c[i].distance <= c[i + 1].distance}

SearchInit ==
    /\ query \in SearchQueries
    /\ top_k \in 1..MaxTopK
    /\ rerank \in BOOLEAN
    /\ rerank_local \in BOOLEAN
    /\ rerank_bge \in BOOLEAN
    /\ keyword_boost \in BOOLEAN
    /\ \E c \in Collections :
           collection = [i \in 1..Len(c) |->
                            [text |-> c[i].text, metadata |-> i, distance |-> c[i].distance]]
    /\ fetch_k = 0
    /\ results = <<>>
    /\ rerank_input = <<>>
    /\ rerank_top_n = 0
    /\ pre_boost = <<>>
    /\ warning = FALSE
    /\ output = <<>>
    /\ exit_code = -1
    /\ raised = "none"
    /\ spc = "start"

\* main.py 137: the candidate pool is not widened
FetchTopK(k, post_processing) == k

\* main.py 137: the candidate pool is five times top_k when a
\* post-processing step (rerank, keyword boost) is requested
FetchK(k, post_processing) == IF post_processing THEN k * 5 ELSE k

\* main.py 136-138 with vector_store.py 77-111
Search ==
    /\ spc = "start"
    /\ fetch_k' = FetchK(top_k, do_rerank \/ keyword_boost)
    /\ results' = [i \in 1..Min({fetch_k', Len(collection)}) |-> FormatResult(collection[i])]
    /\ spc' = "searched"
    /\ UNCHANGED <<query, top_k, rerank, rerank_local, rerank_bge, keyword_boost,
                   collection, pre_boost, warning, output, exit_code, raised>>
    /\ UNCHANGED <<rerank_input, rerank_top_n>>
    /\ UNCHANGED nonSearchVars

\* main.py 141: reranking not requested, or nothing to rerank
SkipRerank ==
    /\ spc = "searched"
    /\ ~(do_rerank /\ results # <<>>)
    /\ spc' = "reranked"
    /\ UNCHANGED <<query, top_k, rerank, rerank_local, rerank_bge, keyword_boost,
                   collection, fetch_k, results, pre_boost, warning, output, exit_code, raised>>
    /\ UNCHANGED <<rerank_input, rerank_top_n>>
    /\ UNCHANGED nonSearchVars

\* main.py 150-151: the reranker is constructed and its rerank call returns
RerankOk ==
    /\ spc = "searched"
    /\ do_rerank /\ results # <<>>
    /\ "ok" \in ConstructOutcomes(Provider)
    /\ results' \in RerankReturns(Provider, results, fetch_k)
    \* reranker.py 57, 100, 151: each record is copied before it is written,
    \* the list handed in is left as it was
    /\ rerank_input' = results
    /\ rerank_top_n' = fetch_k
    /\ spc' = "reranked"
    /\ UNCHANGED <<query, top_k, rerank, rerank_local, rerank_bge, keyword_boost,
                   collection, fetch_k, pre_boost, warning, output, exit_code, raised>>
    /\ UNCHANGED nonSearchVars

\* main.py 152-153: get_reranker raises ValueError, which is caught
RerankerValueError ==
    /\ spc = "searched"
    /\ do_rerank /\ results # <<>>
    /\ "ValueError" \in ConstructOutcomes(Provider)
    /\ warning' = TRUE
    /\ spc' = "reranked"
    /\ UNCHANGED <<query, top_k, rerank, rerank_local, rerank_bge, keyword_boost,
                   collection, fetch_k, results, pre_boost, output, exit_code, raised>>
    /\ UNCHANGED <<rerank_input, rerank_top_n>>
    /\ UNCHANGED nonSearchVars

\* main.py 142-153: get_reranker raises an exception that is no ValueError;
\* except ValueError does not catch it and it leaves cmd_search
RerankerUnavailable ==
    /\ spc = "searched"
    /\ do_rerank /\ results # <<>>
    /\ raised' \in ConstructOutcomes(Provider) \ {"ok", "ValueError"}
    /\ spc' = "raised"
    /\ UNCHANGED <<query, top_k, rerank, rerank_local, rerank_bge, keyword_boost,
                   collection, fetch_k, results, pre_boost, warning, output, exit_code>>
    /\ UNCHANGED <<rerank_input, rerank_top_n>>
    /\ UNCHANGED nonSearchVars

\* the exceptions a rerank call can end with once the reranker exists: the
\* remote API call of reranker.py 48-53 fails (cohere ApiError, a network
\* error), the local scorer of reranker.py 93 or 132-142 fails (RuntimeError)
RerankCallErrors(provider) ==
    IF provider = "cohere" THEN {"ApiError", "ConnectionError"} ELSE {"RuntimeError"}

\* main.py 151-153: the reranker is constructed and its rerank call raises;
\* none of these is a ValueError, so except ValueError does not catch it and
\* it leaves cmd_search
RerankCallRaises ==
    /\ spc = "searched"
    /\ do_rerank /\ results # <<>>
    /\ "ok" \in ConstructOutcomes(Provider)
    /\ rerank_input' = results
    /\ rerank_top_n' = fetch_k
    /\ raised' \in RerankCallErrors(Provider)
    /\ spc' = "raised"
    /\ UNCHANGED <<query, top_k, rerank, rerank_local, rerank_bge, keyword_boost,
                   collection, fetch_k, results, pre_boost, warning, output, exit_code>>
    /\ UNCHANGED nonSearchVars

\* main.py 156-157
KeywordBoost ==
    /\ spc = "reranked"
    /\ keyword_boost /\ results # <<>>
    /\ pre_boost' = results
    /\ results' = apply_keyword_boost(query, results)
    /\ spc' = "boosted"
    /\ UNCHANGED <<query, top_k, rerank, rerank_local, rerank_bge, keyword_boost,
                   collection, fetch_k, warning, output, exit_code, raised>>
    /\ UNCHANGED <<rerank_input, rerank_top_n>>
    /\ UNCHANGED nonSearchVars

\* main.py 156: keyword boost not requested, or nothing to boost
SkipKeywordBoost ==
    /\ spc = "reranked"
    /\ ~(keyword_boost /\ results # <<>>)
    /\ spc' = "boosted"
    /\ UNCHANGED <<query, top_k, rerank, rerank_local, rerank_bge, keyword_boost,
                   collection, fetch_k, results, pre_boost, warning, output, exit_code, raised>>
    /\ UNCHANGED <<rerank_input, rerank_top_n>>
    /\ UNCHANGED nonSearchVars

\* main.py 166 without the slice: every result is printed
PrintedAll(rs, k) == rs

\* main.py 161-166: nothing when there are no results, else results[:top_k]
Printed(rs, k) == IF rs = <<>> THEN <<>> ELSE Take(rs, k)

\* main.py 161-182: "No results found." or the first top_k results; return 0
PrintResults ==
    /\ spc = "boosted"
    /\ output' = Printed(results, top_k)
    /\ exit_code' = 0
    /\ spc' = "returned"
    /\ UNCHANGED <<query, top_k, rerank, rerank_local, rerank_bge, keyword_boost,
                   collection, fetch_k, results, pre_boost, warning, raised>>
    /\ UNCHANGED <<rerank_input, rerank_top_n>>
    /\ UNCHANGED nonSearchVars

SearchNext ==
    \/ Search
    \/ SkipRerank
    \/ RerankOk
    \/ RerankerValueError
    \/ RerankerUnavailable
    \/ RerankCallRaises
    \/ KeywordBoost
    \/ SkipKeywordBoost
    \/ PrintResults

----------------------------------------------------------------------------
(* _apply_keyword_boost alone, on the result lists store.search returns    *)
(* (vector_store.py 96-111: nearest first, so by descending score).        *)

CandidateLists ==
    {c \in UNION {[1..n -> [text : CandTexts, score : SimilarityScores]] : n \in 1..MaxCands} :
        \A i \in 1..(Len(c) - 1) : c[i].score >= c[i + 1].score}

BoostInit ==
    /\ query \in Queries
    /\ top_k = 1
    /\ rerank = FALSE
    /\ rerank_local = FALSE
    /\ rerank_bge = FALSE
    /\ keyword_boost = TRUE
    /\ collection = <<>>
    /\ fetch_k = 5
    /\ \E c \in CandidateLists :
           results = [i \in 1..Len(c) |->
                         [text |-> c[i].text, metadata |-> i, score |-> c[i].score]]
    /\ rerank_input = <<>>
    /\ rerank_top_n = 0
    /\ pre_boost = <<>>
    /\ warning = FALSE
    /\ output = <<>>
    /\ exit_code = -1
    /\ raised = "none"
    /\ spc = "reranked"

----------------------------------------------------------------------------
(* split_by_sections (text_processor.py 49-83) *)

\* text_processor.py 52, 63: re.match(r'^(#{1,4})\s+(.+)$', line).  The
\* engine takes the longest run of 1 to 4 '#', then the longest run of
\* whitespace that still leaves a character for (.+), which takes the rest
\* of the line.  The result is <<len(group 1), group 2>>, or <<>> when the
\* line does not match.
SectionMatch(line) ==
    LET n == Len(line)
        fits == {km \in (1..4) \X (1..n) :
                    /\ km[1] + km[2] + 1 <= n
                    /\ \A i \in 1..km[1] : line[i] = "#"
                    /\ \A i \in (km[1] + 1)..(km[1] + km[2]) : line[i] \in Spaces}
    IN  IF fits = {} THEN <<>>
        ELSE LET k == Max({km[1] : km \in fits})
                 m == Max({km[2] : km \in {x \in fits : x[1] = k}})
             IN  <<k, From(line, k + m + 1)>>

NoSection == [header |-> <<>>, level |-> 0, content |-> <<>>]

RECURSIVE SectionLoopDropLast(_, _, _, _)

\* the loop without the append after it: the section that is open when the
\* lines run out is not returned
SectionLoopDropLast(lines, i, acc, current_section) ==
    IF i > Len(lines) THEN acc
    ELSE LET match == SectionMatch(lines[i])
         IN  IF match # <<>>
             THEN SectionLoopDropLast(lines, i + 1,
                      IF current_section.content # <<>>
                      THEN Append(acc, current_section) ELSE acc,
                      [header |-> Strip(match[2]), level |-> match[1], content |-> <<>>])
             ELSE SectionLoopDropLast(lines, i + 1, acc,
                      [current_section EXCEPT !.content = Append(@, lines[i])])

RECURSIVE SectionLoop(_, _, _, _)

\* text_processor.py 62-83: the for loop over lines from index i on, with
\* the sections collected so far (acc) and the open section, then the final append
SectionLoop(lines, i, acc, current_section) ==
    IF i > Len(lines)
    THEN IF current_section.content # <<>>
         THEN Append(acc, current_section) ELSE acc
    ELSE LET match == SectionMatch(lines[i])
         IN  IF match # <<>>
             THEN SectionLoop(lines, i + 1,
                      IF current_section.content # <<>>
                      THEN Append(acc, current_section) ELSE acc,
                      [header |-> Strip(match[2]), level |-> match[1], content |-> <<>>])
             ELSE SectionLoop(lines, i + 1, acc,
                      [current_section EXCEPT !.content = Append(@, lines[i])])

\* text_processor.py 49-83
split_by_sections(t) == SectionLoop(StrSplit(t, <<NL>>), 1, <<>>, NoSection)

\* the lines a document is made of: blank, plain text, headers of level 1
\* and 2, a '#' without whitespace after it, five '#', a header whose title
\* is whitespace
DocLines ==
    { <<>>, <<"a">>, <<"#", " ", "a">>, <<"#", "#", " ", "b">>, <<"#", "a">>,
      <<"#", "#", "#", "#", "#", " ", "a">>, <<"#", " ", " ">> }

Documents == {Join(<<NL>>, ls) : ls \in UNION {[1..n -> DocLines] : n \in 1..MaxLines}}

SectionInit ==
    /\ document \in Documents
    /\ sections = <<>>
    /\ secpc = "start"

SplitBySections ==
    /\ secpc = "start"
    /\ sections' = split_by_sections(document)
    /\ secpc' = "done"
    /\ UNCHANGED document
    /\ UNCHANGED nonSectionVars

SectionIdle ==
    /\ document = <<>>
    /\ sections = <<>>
    /\ secpc = "idle"

----------------------------------------------------------------------------
(* extract_key_terms (text_processor.py 168-220) *)

\* text_processor.py 182
TableTerm ==
    <<"T","A","B","L","E",":","r","e","g","i","s","t","e","r","_","b","i","t",
      "f","i","e","l","d","s">>
\* text_processor.py 197
OverviewTerm ==
    <<"O","V","E","R","V","I","E","W",":","r","e","g","i","s","t","e","r","_",
      "l","i","s","t">>
\* text_processor.py 193
RegisterTitleHead ==
    <<"R","E","G","I","S","T","E","R"," ","D","E","F","I","N","I","T","I","O",
      "N",":"," ">>
RegisterTitleTail ==
    <<" ","-"," ","C","o","m","p","l","e","t","e"," ","b","i","t"," ","f","i",
      "e","l","d"," ","s","p","e","c","i","f","i","c","a","t","i","o","n",NL>>
\* text_processor.py 192, 202
AddressOffsetLabel ==
    <<"A","d","d","r","e","s","s"," ","o","f","f","s","e","t",":">>
\* text_processor.py 207
ResetValueLabel ==
    <<"R","e","s","e","t"," ","v","a","l","u","e",":">>
\* text_processor.py 204, 209, 216
OffsetTermHead ==
    <<"o","f","f","s","e","t",":">>
ResetTermHead ==
    <<"r","e","s","e","t",":">>
FieldsTermHead ==
    <<"f","i","e","l","d","s",":">>
\* text_processor.py 219
KeyOpen ==
    <<"[","K","E","Y",":"," ">>
KeyClose ==
    <<"]",NL,NL>>
TermSeparator ==
    <<" ","|"," ">>

\* pieces of chunk text: one register name
FragmentOneRegister ==
    <<"A","A","_","A",NL>>
\* two register names
FragmentTwoRegisters ==
    <<"A","A","_","B"," ","A","A","_","C",NL>>
\* five register names, two of them those of FragmentTwoRegisters
FragmentFiveRegisters ==
    <<"A","A","_","B"," ","A","A","_","C"," ","A","A","_","D"," ","A","A","_",
      "E"," ","A","A","_","F",NL>>
\* the separator row of a markdown table
FragmentTableRow ==
    <<"|","-","|","-","|",NL>>
\* the address offset line of a register definition
FragmentOffset ==
    <<"A","d","d","r","e","s","s"," ","o","f","f","s","e","t",":"," ","0","x",
      "1","C",NL>>
\* the reset value and a bit field
FragmentResetAndBits ==
    <<"R","e","s","e","t"," ","v","a","l","u","e",":"," ","0","x","0",NL,"B",
      "i","t"," ","7"," ","E","V",":",NL>>
\* text in which no heuristic finds anything
FragmentPlain ==
    <<"s","e","e"," ","a","b",NL>>

\* ^ and $ of re with re.MULTILINE: position i of s starts a line, position
\* e of s is the end of a line
LineStart(s, i) == i = 1 \/ (i >= 2 /\ i <= Len(s) + 1 /\ s[i - 1] = NL)
LineEnd(s, e) == e = Len(s) + 1 \/ (e >= 1 /\ e <= Len(s) /\ s[e] = NL)

\* [\s\-:] and [\s\-:|] of the table separator pattern
SeparatorCell == Spaces \cup {"-", ":"}
SeparatorRest == SeparatorCell \cup {"|"}

\* text_processor.py 168-172: re.search(r'^\|[\s\-:]+\|[\s\-:|]+$', text,
\* re.MULTILINE) finds a match
has_markdown_table(t) ==
    \E i \in 1..Len(t) :
        /\ LineStart(t, i)
        /\ t[i] = "|"
        /\ \E p \in (i + 2)..Min({Len(t), RunEnd(t, i + 1, SeparatorCell)}) :
               /\ t[p] = "|"
               /\ \E e \in (p + 2)..RunEnd(t, p + 1, SeparatorRest) : LineEnd(t, e)

\* text_processor.py 185: a match of \b([A-Z]{2,}[x]?_[A-Z0-9_]+)\b starting
\* at position i of s; the position just past the match the (greedy,
\* backtracking) engine finds first, 0 if it finds none
RegisterMatchEnd(s, i) ==
    LET n == Len(s)
        lettersEnd == RunEnd(s, i, UpperCase)
        \* where the '_' can stand: after two or more letters and at most one 'x'
        underscores == {q \in (i + 2)..Min({n, lettersEnd + 1}) :
                           /\ s[q] = "_"
                           /\ \E p \in (i + 2)..lettersEnd :
                                  q = p \/ (q = p + 1 /\ s[p] = "x")}
        ends == UNION {{e \in (q + 2)..RunEnd(s, q + 1, TermTail) : WordBoundary(s, e)} :
                          q \in underscores}
    IN  IF i <= n /\ WordBoundary(s, i) /\ ends # {} THEN Max(ends) ELSE 0

\* text_processor.py 186: re.findall(register_pattern, s), the matches left
\* to right, none overlapping
RECURSIVE FindAllRegistersFrom(_, _)
FindAllRegistersFrom(s, i) ==
    LET starts == {j \in i..Len(s) : RegisterMatchEnd(s, j) # 0}
    IN  IF starts = {} THEN <<>>
        ELSE LET j == Min(starts)
                 e == RegisterMatchEnd(s, j)
             IN  <<SubSeq(s, j, e - 1)>> \o FindAllRegistersFrom(s, e)

\* list(dict.fromkeys(xs)): the first occurrence of every element, in order
RECURSIVE FromKeys(_)
FromKeys(xs) ==
    IF xs = <<>> THEN <<>>
    ELSE LET front == FromKeys(SubSeq(xs, 1, Len(xs) - 1))
             last == xs[Len(xs)]
         IN  IF \E k \in 1..Len(front) : front[k] = last THEN front
             ELSE Append(front, last)

\* the slice taken before the duplicates are dropped
UniqueRegsOfFirstFive(registers) == FromKeys(SubSeq(registers, 1, Min({5, Len(registers)})))

\* text_processor.py 189: list(dict.fromkeys(registers))[:5]
UniqueRegs(registers) ==
    LET unique == FromKeys(registers)
    IN  SubSeq(unique, 1, Min({5, Len(unique)}))

\* [0-9A-Fa-f]
HexDigits == Digits \cup {"A", "B", "C", "D", "E", "F", "a", "b", "c", "d", "e", "f"}

\* text_processor.py 202, 207: group 1 of re.search(label + r'\s*(0x[0-9A-Fa-f]+)', s),
\* <<>> if there is no match
SearchHexAfter(s, label) ==
    LET valueAt(i) == RunEnd(s, i + Len(label), Spaces)
        hits == {i \in 1..Len(s) :
                    /\ OccursAt(s, label, i)
                    /\ valueAt(i) + 2 <= Len(s)
                    /\ s[valueAt(i)] = "0"
                    /\ s[valueAt(i) + 1] = "x"
                    /\ s[valueAt(i) + 2] \in HexDigits}
    IN  IF hits = {} THEN <<>>
        ELSE LET j == valueAt(Min(hits))
             IN  SubSeq(s, j, RunEnd(s, j + 2, HexDigits) - 1)

\* [A-Z0-9_\[\]] of the bit field pattern
FieldTail == UpperCase \cup Digits \cup {"_", "[", "]"}

\* text_processor.py 212: a match of
\* Bits?\s+\d+(?::\d+)?\s+([A-Z][A-Z0-9_\[\]]+): starting at position i of
\* s, as <<start of group 1, position just past the match>>; <<>> if none
FieldMatch(s, i) ==
    LET n == Len(s)
        afterBit == i + 3
        afterS == IF afterBit <= n /\ s[afterBit] = "s" THEN afterBit + 1 ELSE afterBit
        number == RunEnd(s, afterS, Spaces)
        afterNumber == RunEnd(s, number, Digits)
        afterRange == IF /\ afterNumber + 1 <= n
                         /\ s[afterNumber] = ":"
                         /\ s[afterNumber + 1] \in Digits
                      THEN RunEnd(s, afterNumber + 1, Digits)
                      ELSE afterNumber
        name == RunEnd(s, afterRange, Spaces)
        colon == RunEnd(s, name + 1, FieldTail)
    IN  IF /\ OccursAt(s, <<"B", "i", "t">>, i)
           /\ number > afterS
           /\ afterNumber > number
           /\ name > afterRange
           /\ name <= n
           /\ s[name] \in UpperCase
           /\ colon > name + 1
           /\ colon <= n
           /\ s[colon] = ":"
        THEN <<name, colon + 1>>
        ELSE <<>>

\* text_processor.py 213: re.findall(field_pattern, s), group 1 of the
\* matches left to right
RECURSIVE FindAllFieldsFrom(_, _)
FindAllFieldsFrom(s, i) ==
    LET starts == {j \in i..Len(s) : FieldMatch(s, j) # <<>>}
    IN  IF starts = {} THEN <<>>
        ELSE LET m == FieldMatch(s, Min(starts))
             IN  <<SubSeq(s, m[1], m[2] - 2)>> \o FindAllFieldsFrom(s, m[2])

\* text_processor.py 187-199: the register title and the terms the
\* register names add, as <<register_title, terms>>
RegisterTerms(t, has_table, unique_regs) ==
    IF unique_regs = <<>> THEN << <<>>, <<>> >>
    ELSE IF has_table /\ Contains(t, AddressOffsetLabel)
         THEN <<RegisterTitleHead \o unique_regs[1] \o RegisterTitleTail, unique_regs>>
         ELSE IF Len(unique_regs) >= 4 THEN << <<>>, <<OverviewTerm>> >>
              ELSE << <<>>, unique_regs >>

\* the one value of a set of one value: Only({F(x) : x \in {e}}) is F at
\* the value of e, with e computed once
Only(S) == CHOOSE v \in S : TRUE

\* text_processor.py 180-220: the list terms and the string returned, from
\* the locals of extract_key_terms
KeyTermsLocals(t, has_table, registers, offset_match, reset_match, fields) ==
    LET fromRegisters == RegisterTerms(t, has_table, UniqueRegs(registers))
        unique_fields == LET u == FromKeys(fields) IN SubSeq(u, 1, Min({8, Len(u)}))
        terms == (IF has_table THEN <<TableTerm>> ELSE <<>>)
                 \o fromRegisters[2]
                 \o (IF offset_match # <<>> THEN <<OffsetTermHead \o offset_match>> ELSE <<>>)
                 \o (IF reset_match # <<>> THEN <<ResetTermHead \o reset_match>> ELSE <<>>)
                 \o (IF fields # <<>>
                     THEN <<FieldsTermHead \o Join(<<",">>, unique_fields)>> ELSE <<>>)
    IN  [has_table |-> has_table,
         registers |-> registers,
         offset_match |-> offset_match,
         reset_match |-> reset_match,
         fields |-> fields,
         returned |-> IF terms # <<>>
                      THEN fromRegisters[1] \o KeyOpen \o Join(TermSeparator, terms) \o KeyClose
                      ELSE <<>>]

\* text_processor.py 174-220: what extract_key_terms computes, the locals it
\* works with and the string it returns
KeyTermsOf(t) ==
    Only({KeyTermsLocals(t, has_table, registers, offset_match, reset_match, fields) :
             has_table \in {has_markdown_table(t)},
             registers \in {FindAllRegistersFrom(t, 1)},
             offset_match \in {SearchHexAfter(t, AddressOffsetLabel)},
             reset_match \in {SearchHexAfter(t, ResetValueLabel)},
             fields \in {FindAllFieldsFrom(t, 1)}})

\* text_processor.py 174-220
extract_key_terms(t) == KeyTermsOf(t).returned

Fragments ==
    {FragmentOneRegister, FragmentTwoRegisters, FragmentFiveRegisters, FragmentTableRow,
     FragmentOffset, FragmentResetAndBits, FragmentPlain}

RECURSIVE Flatten(_)
Flatten(parts) == IF parts = <<>> THEN <<>> ELSE Head(parts) \o Flatten(Tail(parts))

\* the chunk texts handed to extract_key_terms: up to MaxFragments pieces
ChunkTexts == {Flatten(fs) : fs \in UNION {[1..n -> Fragments] : n \in 1..MaxFragments}}

KeyTermsInit ==
    /\ kt_text \in ChunkTexts
    /\ kt_locals = [has_table |-> FALSE, registers |-> <<>>, offset_match |-> <<>>,
                    reset_match |-> <<>>, fields |-> <<>>, returned |-> <<>>]
    /\ ktpc = "start"

ExtractKeyTerms ==
    /\ ktpc = "start"
    /\ kt_locals' = KeyTermsOf(kt_text)
    /\ ktpc' = "done"
    /\ UNCHANGED kt_text
    /\ UNCHANGED nonKeyTermVars

KeyTermsIdle ==
    /\ kt_text = <<>>
    /\ kt_locals = [has_table |-> FALSE, registers |-> <<>>, offset_match |-> <<>>,
                    reset_match |-> <<>>, fields |-> <<>>, returned |-> <<>>]
    /\ ktpc = "idle"

----------------------------------------------------------------------------
(* The two identifier patterns on one string: the term pattern of the      *)
(* keyword boost (vector_store.py 127-133) and the register pattern of     *)
(* extract_key_terms (text_processor.py 184-186).                          *)

IdentifierChars == {"A", "x", "1", "_", " "}
IdentifierStrings == UNION {[1..n -> IdentifierChars] : n \in 0..MaxTermLen}

IdentifiersInit ==
    /\ id_string \in IdentifierStrings
    /\ id_query_terms = <<>>
    /\ id_registers = <<>>
    /\ idpc = "start"

\* vector_store.py 129-130: the string as a query
ExtractQueryTerms ==
    /\ idpc \in {"start", "text"}
    /\ id_query_terms' = QueryTerms(id_string)
    /\ idpc' = IF idpc = "start" THEN "query" ELSE "done"
    /\ UNCHANGED <<id_string, id_registers>>
    /\ UNCHANGED nonIdentifierVars

\* text_processor.py 185-186: the string as chunk text
FindRegisters ==
    /\ idpc \in {"start", "query"}
    /\ id_registers' = FindAllRegistersFrom(id_string, 1)
    /\ idpc' = IF idpc = "start" THEN "text" ELSE "done"
    /\ UNCHANGED <<id_string, id_query_terms>>
    /\ UNCHANGED nonIdentifierVars

IdentifiersIdle ==
    /\ id_string = <<>>
    /\ id_query_terms = <<>>
    /\ id_registers = <<>>
    /\ idpc = "idle"

----------------------------------------------------------------------------
(* One ingestion run: process_file (text_processor.py 256-290) and         *)
(* process_pdf (pdf_processor.py 112-143), from the loop over the sections *)
(* or pages on.                                                            *)

\* a match of ^\d+\s*$ (re.MULTILINE) starting at position i of s: the
\* position just past it, 0 if there is none.  \s* takes the longest run of
\* whitespace that ends where a line ends.
NumberLineEnd(s, i) ==
    LET digitsEnd == RunEnd(s, i, Digits)
        ends == {e \in digitsEnd..RunEnd(s, digitsEnd, Spaces) : LineEnd(s, e)}
    IN  IF LineStart(s, i) /\ digitsEnd > i /\ ends # {} THEN Max(ends) ELSE 0

\* a match of \.[\s.]+\d+\s*$ (re.MULTILINE) starting at position i of s:
\* the position just past it, 0 if there is none
DotLeaderEnd(s, i) ==
    LET leaderEnd == RunEnd(s, i + 1, Spaces \cup {"."})
        digitsEnd == RunEnd(s, leaderEnd, Digits)
        ends == {e \in digitsEnd..RunEnd(s, digitsEnd, Spaces) : LineEnd(s, e)}
    IN  IF /\ i <= Len(s)
           /\ s[i] = "."
           /\ leaderEnd > i + 1
           /\ digitsEnd > leaderEnd
           /\ ends # {}
        THEN Max(ends) ELSE 0

\* text_processor.py 95: re.sub(r'^\d+\s*$', '', s, flags=re.MULTILINE) from
\* position i on
RECURSIVE RemoveNumberLines(_, _)
RemoveNumberLines(s, i) ==
    LET starts == {j \in i..Len(s) : NumberLineEnd(s, j) # 0}
    IN  IF starts = {} THEN From(s, i)
        ELSE SubSeq(s, i, Min(starts) - 1) \o RemoveNumberLines(s, NumberLineEnd(s, Min(starts)))

\* text_processor.py 96: re.sub(r'\.[\s.]+\d+\s*$', '', s, flags=re.MULTILINE)
\* from position i on
RECURSIVE RemoveDotLeaders(_, _)
RemoveDotLeaders(s, i) ==
    LET starts == {j \in i..Len(s) : DotLeaderEnd(s, j) # 0}
    IN  IF starts = {} THEN From(s, i)
        ELSE SubSeq(s, i, Min(starts) - 1) \o RemoveDotLeaders(s, DotLeaderEnd(s, Min(starts)))

\* text_processor.py 101, 114-117: the header line put before a text
WithHeader(header, body) ==
    IF header # <<>> THEN <<"#", " ">> \o header \o <<NL, NL>> \o body ELSE body

\* text_processor.py 101-102, 114-119: a text under its header, with its
\* key terms before it
Annotated(header, body) ==
    Only({extract_key_terms(full_text) \o full_text :
             full_text \in {WithHeader(header, body)}})

\* text_processor.py 85-126; content, full_text_with_keys and chunks are
\* the code's local variables, each computed once
chunk_section(section, size) ==
    LET header == section.header
        Chunks(content) ==
            IF content = <<>> THEN <<>>
            ELSE IF \/ Len(Strip(RemoveNumberLines(content, 1))) < 50
                    \/ Len(Strip(RemoveDotLeaders(content, 1))) < 50
                 THEN <<>>
            ELSE Only({IF count_tokens(full_text_with_keys) <= size
                       THEN IF Strip(full_text_with_keys) # <<>>
                            THEN <<full_text_with_keys>> ELSE <<>>
                       \* text_processor.py 128-166 is the splitter of
                       \* chunking.py 19-65
                       ELSE Only({SelectSeq([k \in 1..Len(pieces) |->
                                                Annotated(header, pieces[k])],
                                            LAMBDA c : Strip(c) # <<>>) :
                                     pieces \in {split_text_recursive(content, size,
                                                                      DefaultSeparators)}}) :
                          full_text_with_keys \in {Annotated(header, content)}})
    IN  Only({Chunks(content) : content \in {Strip(Join(<<NL>>, section.content))}})

\* dict.update: the entries of extra added to those of metadata, an entry
\* of extra replacing the entry of metadata with the same key
Updated(metadata, extra) ==
    [k \in (DOMAIN metadata) \cup (DOMAIN extra) |->
        IF k \in DOMAIN extra THEN extra[k] ELSE metadata[k]]

\* text_processor.py 278-288, pdf_processor.py 131-141: the chunks appended
\* for one section or page, whose place (section, page) is the entry
\* key: value; first_index is chunk_index when the loop starts
EmittedChunks(unit_chunks, source, key, value, first_index, extra) ==
    [k \in 1..Len(unit_chunks) |->
        [text |-> unit_chunks[k],
         metadata |-> Updated(SetKey(SetKey(SetKey(<<>>, "source", source), key, value),
                                     "chunk_index", first_index + k - 1),
                              extra)]]

\* a word of n letters
LongWord(n) == [i \in 1..n |-> "a"]

\* sections as split_by_sections returns them: a table-of-contents entry
\* with dot leaders and a page number, a section that fits one chunk, a
\* section of two paragraphs that names a register
RunSections ==
    { [header |-> <<"h">>, level |-> 1,
       content |-> <<LongWord(48) \o <<" ", ".", " ", ".", " ", "1", "2">>>>],
      [header |-> <<"h">>, level |-> 2, content |-> <<LongWord(50), <<>>>>],
      [header |-> <<>>, level |-> 0,
       content |-> <<LongWord(50), <<>>, LongWord(50) \o <<" ">> \o AFIO_MAPR>>] }

\* page texts as extract_text_with_pages returns them (never blank)
RunPageTexts ==
    { <<"a">>, <<"a", " ", "a", " ", "a", NL, NL, "a", " ", "a", " ", "a">> }

\* the extra_metadata mappings a caller passes: none, a key of its own, the
\* keys the processor sets itself
ExtraMetadata ==
    { <<>>, [project |-> "stm32"], [chunk_index |-> 0], [source |-> "other.md"] }

RunInit ==
    /\ run_kind \in {"text", "pdf"}
    /\ run_source = IF run_kind = "pdf" THEN "manual.pdf" ELSE "manual.md"
    /\ run_units \in UNION {[1..n -> IF run_kind = "pdf" THEN RunPageTexts ELSE RunSections] :
                               n \in 0..MaxUnits}
    /\ extra_metadata \in ExtraMetadata
    /\ all_chunks = <<>>
    /\ chunk_index = 0
    /\ run_next = 1
    /\ runpc = "loop"

\* text_processor.py 274-288: one pass of the loop over the sections
ProcessSection ==
    /\ runpc = "loop"
    /\ run_kind = "text"
    /\ run_next <= Len(run_units)
    /\ \E section \in {run_units[run_next]} :
       \E base_chunks \in {chunk_section(section, chunk_size)} :
       \E section_chunks \in {add_overlap(base_chunks, chunk_overlap)} :
           /\ all_chunks' = all_chunks \o
                  EmittedChunks(section_chunks, run_source, "section",
                                SubSeq(section.header, 1, Min({100, Len(section.header)})),
                                chunk_index, extra_metadata)
           /\ chunk_index' = chunk_index + Len(section_chunks)
    /\ run_next' = run_next + 1
    /\ UNCHANGED <<run_kind, run_source, run_units, extra_metadata, runpc>>
    /\ UNCHANGED nonRunVars

\* pdf_processor.py 124-141: one pass of the loop over the pages
ProcessPage ==
    /\ runpc = "loop"
    /\ run_kind = "pdf"
    /\ run_next <= Len(run_units)
    /\ LET page_chunks ==
               add_overlap(pdf_split_text_recursive(run_units[run_next], chunk_size,
                                                    DefaultSeparators),
                           chunk_overlap)
       IN  /\ all_chunks' = all_chunks \o
                  EmittedChunks(page_chunks, run_source, "page", run_next,
                                chunk_index, extra_metadata)
           /\ chunk_index' = chunk_index + Len(page_chunks)
    /\ run_next' = run_next + 1
    /\ UNCHANGED <<run_kind, run_source, run_units, extra_metadata, runpc>>
    /\ UNCHANGED nonRunVars

\* text_processor.py 290, pdf_processor.py 143: return all_chunks
ReturnChunks ==
    /\ runpc = "loop"
    /\ run_next > Len(run_units)
    /\ runpc' = "returned"
    /\ UNCHANGED <<run_kind, run_source, run_units, extra_metadata, all_chunks,
                   chunk_index, run_next>>
    /\ UNCHANGED nonRunVars

RunIdle ==
    /\ run_kind = "text"
    /\ run_source = ""
    /\ run_units = <<>>
    /\ extra_metadata = <<>>
    /\ all_chunks = <<>>
    /\ chunk_index = 0
    /\ run_next = 1
    /\ runpc = "idle"

\* the processors of a run with a budget of 4 tokens and an overlap of 2
RunProcessors ==
    /\ text = <<>>
    /\ chunk_size = 4
    /\ chunk_overlap = 2
    /\ processor = "text"
    /\ chunks = <<>>
    /\ overlapped = <<>>
    /\ cpc = "idle"

----------------------------------------------------------------------------
(* The command line: main.py cmd_create_db, cmd_list_dbs, cmd_delete_db,   *)
(* cmd_ingest, cmd_search, cmd_list_docs, cmd_delete_doc, and the database *)
(* functions of vector_store.py.  databases maps the name of every         *)
(* directory under DATABASES_DIR to its collection, a collection maps a    *)
(* source to the number of chunks stored with that source.  An exception   *)
(* nothing catches ends the interpreter with status 1.                     *)

\* database names given on the command line
DbNames == {"a", "b"}

\* file paths given on the command line, and those that exist
PathManualPdf == <<"m", ".", "p", "d", "f">>
PathNotesMd == <<"n", ".", "M", "D">>
PathDataCsv == <<"d", ".", "c", "s", "v">>
PathGoneMd == <<"g", ".", "m", "d">>
Paths == {PathManualPdf, PathNotesMd, PathDataCsv, PathGoneMd}
Files == {PathManualPdf, PathNotesMd, PathDataCsv}

\* str.lower()
Lower(s) ==
    [i \in 1..Len(s) |->
        IF s[i] \in UpperCase THEN CHOOSE c \in LowerCase : ToUpper[c] = s[i] ELSE s[i]]

\* Path.suffix of a file name: from its last dot on, if that dot is neither
\* its first nor its last character
Suffix(name) ==
    LET dots == {i \in 2..Len(name) : name[i] = "."}
    IN  IF dots = {} \/ Max(dots) = Len(name) THEN <<>> ELSE From(name, Max(dots))

\* main.py 76: supported
Supported == {<<".", "p", "d", "f">>, <<".", "m", "d">>, <<".", "t", "x", "t">>}

\* a check that finds every database
database_exists_always(dbs, db_name) == TRUE

\* vector_store.py 231-233
database_exists(dbs, db_name) == db_name \in DOMAIN dbs

\* vector_store.py 36-43, 26-33: the collection property of a VectorStore,
\* which creates the client's directory and the collection when missing
WithCollection(dbs, db_name) ==
    IF db_name \in DOMAIN dbs THEN dbs ELSE SetKey(dbs, db_name, <<>>)

\* vector_store.py 194-205, as <<what it returns, the databases after it>>
create_database(dbs, db_name) ==
    IF db_name \in DOMAIN dbs THEN <<FALSE, dbs>>
    ELSE <<TRUE, WithCollection(dbs, db_name)>>

\* vector_store.py 220-228, as <<what it returns, the databases after it>>
delete_database(dbs, db_name) ==
    IF db_name \notin DOMAIN dbs THEN <<FALSE, dbs>>
    ELSE <<TRUE, [x \in (DOMAIN dbs) \ {db_name} |-> dbs[x]]>>

\* the number of chunks a collection holds for a source
ChunksOf(stored, source) == IF source \in DOMAIN stored THEN stored[source] ELSE 0

\* vector_store.py 52-75: add_documents with n chunks of one source, the
\* embedding call succeeding or raising; as <<status, the databases after it>>
add_documents(dbs, db_name, source, n, embed_ok) ==
    IF n = 0 THEN <<0, dbs>>
    ELSE IF ~embed_ok THEN <<1, dbs>>
    ELSE LET opened == WithCollection(dbs, db_name)
         IN  <<0, SetKey(opened, db_name,
                         SetKey(opened[db_name], source,
                                ChunksOf(opened[db_name], source) + n))>>

\* vector_store.py 174-184, as <<what it returns, the databases after it>>
delete_document(dbs, db_name, source_name) ==
    LET opened == WithCollection(dbs, db_name)
        stored == opened[db_name]
    IN  <<ChunksOf(stored, source_name),
          SetKey(opened, db_name,
                 [x \in (DOMAIN stored) \ {source_name} |-> stored[x]])>>

\* the command line of one invocation
Command(name, db_name, file_path, doc_name) ==
    [name |-> name, db_name |-> db_name, file_path |-> file_path, doc_name |-> doc_name]

CliInit ==
    /\ databases = <<>>
    /\ databases_before = <<>>
    /\ command = Command("none", "", <<>>, <<>>)
    /\ status = 0

\* main.py 306-309: no command given
NoCommand ==
    /\ command' = Command("", "", <<>>, <<>>)
    /\ status' = 1
    /\ databases_before' = databases
    /\ UNCHANGED databases
    /\ UNCHANGED nonCliVars

\* main.py 20-31
CmdCreateDb ==
    \E db_name \in DbNames :
        LET created == create_database(databases, db_name)
        IN  /\ command' = Command("create-db", db_name, <<>>, <<>>)
            /\ IF database_exists(databases, db_name)
               THEN status' = 1 /\ UNCHANGED databases
               ELSE /\ databases' = created[2]
                    /\ status' = IF created[1] THEN 0 ELSE 1
            /\ databases_before' = databases
            /\ UNCHANGED nonCliVars

\* main.py 34-47: a VectorStore is opened on every database listed
CmdListDbs ==
    /\ command' = Command("list-dbs", "", <<>>, <<>>)
    /\ status' = 0
    /\ databases_before' = databases
    /\ UNCHANGED databases
    /\ UNCHANGED nonCliVars

\* main.py 50-61
CmdDeleteDb ==
    \E db_name \in DbNames :
        LET deleted == delete_database(databases, db_name)
        IN  /\ command' = Command("delete-db", db_name, <<>>, <<>>)
            /\ IF ~database_exists(databases, db_name)
               THEN status' = 1 /\ UNCHANGED databases
               ELSE /\ databases' = deleted[2]
                    /\ status' = IF deleted[1] THEN 0 ELSE 1
            /\ databases_before' = databases
            /\ UNCHANGED nonCliVars

\* main.py 64-109: the processor returns n chunks, the embedding call
\* returns or raises
CmdIngest ==
    \E db_name \in DbNames, file_path \in Paths, n \in 0..MaxChunks, embed_ok \in BOOLEAN :
        LET added == add_documents(databases, db_name, file_path, n, embed_ok)
        IN  /\ ChunksOf(IF db_name \in DOMAIN databases THEN databases[db_name] ELSE <<>>,
                        file_path) + n <= MaxChunks
            /\ command' = Command("ingest", db_name, file_path, <<>>)
            /\ IF ~database_exists(databases, db_name)
               THEN status' = 1 /\ UNCHANGED databases
               ELSE IF file_path \notin Files
               THEN status' = 1 /\ UNCHANGED databases
               ELSE IF Lower(Suffix(file_path)) \notin Supported
               THEN status' = 1 /\ UNCHANGED databases
               ELSE /\ databases' = added[2]
                    /\ status' = added[1]
            /\ databases_before' = databases
            /\ UNCHANGED nonCliVars

\* main.py 112-182: the search runs to its end, or the reranker call raises
CmdSearch ==
    \E db_name \in DbNames, rerank_raises \in BOOLEAN :
        /\ command' = Command("search", db_name, <<>>, <<>>)
        /\ IF ~database_exists(databases, db_name)
           THEN status' = 1 /\ UNCHANGED databases
           ELSE /\ databases' = WithCollection(databases, db_name)
                /\ status' = IF rerank_raises THEN 1 ELSE 0
        /\ databases_before' = databases
        /\ UNCHANGED nonCliVars

\* main.py 185-201
CmdListDocs ==
    \E db_name \in DbNames :
        /\ command' = Command("list-docs", db_name, <<>>, <<>>)
        /\ IF ~database_exists(databases, db_name)
           THEN status' = 1 /\ UNCHANGED databases
           ELSE /\ databases' = WithCollection(databases, db_name)
                /\ status' = 0
        /\ databases_before' = databases
        /\ UNCHANGED nonCliVars

\* main.py 204-218
CmdDeleteDoc ==
    \E db_name \in DbNames, doc_name \in Paths :
        LET deleted == delete_document(databases, db_name, doc_name)
        IN  /\ command' = Command("delete-doc", db_name, <<>>, doc_name)
            /\ IF ~database_exists(databases, db_name)
               THEN status' = 1 /\ UNCHANGED databases
               ELSE /\ databases' = deleted[2]
                    /\ status' = IF deleted[1] > 0 THEN 0 ELSE 1
            /\ databases_before' = databases
            /\ UNCHANGED nonCliVars

CliIdle ==
    /\ databases = <<>>
    /\ databases_before = <<>>
    /\ command = Command("idle", "", <<>>, <<>>)
    /\ status = 0

----------------------------------------------------------------------------
(* Embedding: embeddings.py OpenAIEmbedding.embed.  A text is a number, its *)
(* embedding is the vector the provider computes from it; the provider     *)
(* returns the vectors of a batch in the order of the batch.               *)

\* embeddings.py 27
BATCH_SIZE == 100

\* the vector the provider returns for a text
EmbeddingOf(t) == <<t, t + 1>>

\* texts[i : i + BATCH_SIZE] with one text too few
BatchShort(texts, i) == SubSeq(texts, i + 1, Min({i + BATCH_SIZE - 1, Len(texts)}))

\* embeddings.py 43: texts[i : i + self.BATCH_SIZE], i counted from 0
Batch(texts, i) == SubSeq(texts, i + 1, Min({i + BATCH_SIZE, Len(texts)}))

\* embeddings.py 49: response.data for a batch
EmbeddingsCreate(batch) == [k \in 1..Len(batch) |-> EmbeddingOf(batch[k])]

\* embeddings.py 40
TotalBatches(texts) == (Len(texts) + BATCH_SIZE - 1) \div BATCH_SIZE

\* lists of texts: all different, or with repetitions
EmbedTexts ==
    UNION {{[k \in 1..n |-> k], [k \in 1..n |-> k % 3]} : n \in 0..MaxTexts}

EmbedInit ==
    /\ emb_texts \in EmbedTexts
    /\ all_embeddings = <<>>
    /\ emb_i = 0
    /\ submitted = <<>>
    /\ progress = <<>>
    /\ embpc = "loop"

\* embeddings.py 42-50: one pass of the loop
EmbedBatch ==
    /\ embpc = "loop"
    /\ emb_i < Len(emb_texts)
    /\ \E batch \in {Batch(emb_texts, emb_i)} :
           /\ submitted' = Append(submitted, batch)
           /\ all_embeddings' = all_embeddings \o EmbeddingsCreate(batch)
    /\ progress' = Append(progress, <<emb_i \div BATCH_SIZE + 1, TotalBatches(emb_texts)>>)
    /\ emb_i' = emb_i + BATCH_SIZE
    /\ UNCHANGED <<emb_texts, embpc>>
    /\ UNCHANGED nonEmbedVars

\* embeddings.py 52: return all_embeddings
EmbedReturn ==
    /\ embpc = "loop"
    /\ emb_i >= Len(emb_texts)
    /\ embpc' = "returned"
    /\ UNCHANGED <<emb_texts, all_embeddings, emb_i, submitted, progress>>
    /\ UNCHANGED nonEmbedVars

EmbedIdle ==
    /\ emb_texts = <<>>
    /\ all_embeddings = <<>>
    /\ emb_i = 0
    /\ submitted = <<>>
    /\ progress = <<>>
    /\ embpc = "idle"

----------------------------------------------------------------------------
(* The collection of one database: vector_store.py add_documents and       *)
(* delete_document.  The collection maps the id of every stored chunk to   *)
(* the source of the chunk.  What collection.add does with an id that is   *)
(* already stored is the library's business: it raises, skips the chunk or *)
(* replaces the stored one.                                                *)

\* the sources of the documents ingested
StoreSources == {"a.md", "b.md"}

DigitChars == <<"0", "1", "2", "3", "4", "5", "6", "7", "8", "9">>

\* str(n) for n >= 0
RECURSIVE Decimal(_)
Decimal(n) ==
    IF n < 10 THEN <<DigitChars[n + 1]>>
    ELSE Decimal(n \div 10) \o <<DigitChars[(n % 10) + 1]>>

\* the ids numbered from 0 whatever the collection holds
IdsFromZero(existing_count, n) ==
    [i \in 1..n |-> <<"d", "o", "c", "_">> \o Decimal(i - 1)]

\* vector_store.py 65: [f"doc_{existing_count + i}" for i in range(len(chunks))]
GeneratedIds(existing_count, n) ==
    [i \in 1..n |-> <<"d", "o", "c", "_">> \o Decimal(existing_count + i - 1)]

\* vector_store.py 64: self.collection.count()
Count(docs) == Cardinality(DOMAIN docs)

\* vector_store.py 68-73: the collections collection.add can leave, given
\* the ids and the source of the chunks added
CollectionAdd(docs, ids, source) ==
    LET given == {ids[i] : i \in 1..Len(ids)}
        fresh == given \ DOMAIN docs
        skipping == [x \in (DOMAIN docs) \cup fresh |-> IF x \in fresh THEN source ELSE docs[x]]
        replacing == [x \in (DOMAIN docs) \cup given |-> IF x \in given THEN source ELSE docs[x]]
    IN  IF fresh = given THEN {replacing} ELSE {docs, skipping, replacing}

\* vector_store.py 176-179: the ids of the chunks of a source
IdsOfSource(docs, source_name) == {x \in DOMAIN docs : docs[x] = source_name}

StoreInit ==
    /\ store_docs = <<>>
    /\ store_before = <<>>
    /\ new_ids = <<>>
    /\ store_op = "none"

\* vector_store.py 52-75: add_documents with n chunks of one source
AddDocuments ==
    \E source \in StoreSources, n \in 0..MaxStored :
        /\ Count(store_docs) + n <= MaxStored
        /\ IF n = 0
           THEN new_ids' = <<>> /\ UNCHANGED store_docs
           ELSE /\ new_ids' = GeneratedIds(Count(store_docs), n)
                /\ store_docs' \in CollectionAdd(store_docs, new_ids', source)
        /\ store_before' = store_docs
        /\ store_op' = "add"
        /\ UNCHANGED nonStoreVars

\* vector_store.py 174-184
DeleteDocument ==
    \E source_name \in StoreSources :
        /\ store_docs' = [x \in (DOMAIN store_docs) \ IdsOfSource(store_docs, source_name) |->
                             store_docs[x]]
        /\ store_before' = store_docs
        /\ new_ids' = <<>>
        /\ store_op' = "delete"
        /\ UNCHANGED nonStoreVars

StoreIdle ==
    /\ store_docs = <<>>
    /\ store_before = <<>>
    /\ new_ids = <<>>
    /\ store_op = "idle"

----------------------------------------------------------------------------
(* Cleaning: text_processor.py clean_text, with the three header patterns *)
(* of HEADER_PATTERNS.  A pattern is the list of its pieces; none of the   *)
(* three needs backtracking other than in its last piece.                  *)

RM == <<"R", "M">>
Rev == <<"R", "e", "v">>

\* the pieces of a pattern: a character class with its repetition, or
\* literal text
Class(c) == [class |-> c, literal |-> <<>>]
Literal(l) == [class |-> "", literal |-> l]

\* text_processor.py 17: ^\d+/\d+\s+RM\d+\s+Rev\s+\d+\s*$
PageFirstPattern ==
    <<Class("\\d+"), Literal(<<"/">>), Class("\\d+"), Class("\\s+"), Literal(RM),
      Class("\\d+"), Class("\\s+"), Literal(Rev), Class("\\s+"), Class("\\d+"),
      Class("\\s*$")>>

\* text_processor.py 18: ^RM\d+\s+Rev\s+\d+\s+\d+/\d+\s*$
PageLastPattern ==
    <<Literal(RM), Class("\\d+"), Class("\\s+"), Literal(Rev), Class("\\s+"),
      Class("\\d+"), Class("\\s+"), Class("\\d+"), Literal(<<"/">>), Class("\\d+"),
      Class("\\s*$")>>

\* text_processor.py 19: ^RM\d+\s+[A-Za-z].*$
TitlePattern ==
    <<Literal(RM), Class("\\d+"), Class("\\s+"), Class("[A-Za-z]"), Class(".*$")>>

\* text_processor.py 15-20
HEADER_PATTERNS == <<PageFirstPattern, PageLastPattern, TitlePattern>>

\* the position just past what one piece of a pattern matches at position
\* i of s, 0 if it does not match
PieceEnd(s, i, piece) ==
    IF piece.class = "\\d+"
    THEN IF RunEnd(s, i, Digits) > i THEN RunEnd(s, i, Digits) ELSE 0
    ELSE IF piece.class = "\\s+"
    THEN IF RunEnd(s, i, Spaces) > i THEN RunEnd(s, i, Spaces) ELSE 0
    ELSE IF piece.class = "[A-Za-z]"
    THEN IF i <= Len(s) /\ s[i] \in Letters THEN i + 1 ELSE 0
    ELSE IF piece.class = ".*$"
    THEN RunEnd(s, i, {s[k] : k \in i..Len(s)} \ {NL})
    ELSE IF piece.class = "\\s*$"
    THEN LET ends == {e \in i..RunEnd(s, i, Spaces) : LineEnd(s, e)}
         IN  IF ends = {} THEN 0 ELSE Max(ends)
    ELSE IF OccursAt(s, piece.literal, i) THEN i + Len(piece.literal) ELSE 0

\* the position just past a match of the pieces at position i of s, 0 if
\* there is none
RECURSIVE PiecesEnd(_, _, _)
PiecesEnd(s, i, pieces) ==
    IF pieces = <<>> THEN i
    ELSE IF PieceEnd(s, i, Head(pieces)) = 0 THEN 0
    ELSE PiecesEnd(s, PieceEnd(s, i, Head(pieces)), Tail(pieces))

\* a match of ^pattern (re.MULTILINE) at position i of s
HeaderEnd(s, i, pattern) == IF LineStart(s, i) THEN PiecesEnd(s, i, pattern) ELSE 0

\* text_processor.py 32: regex.sub('', s) from position i on
RECURSIVE RemoveHeaders(_, _, _)
RemoveHeaders(s, i, pattern) ==
    LET starts == {j \in i..Len(s) : HeaderEnd(s, j, pattern) # 0}
    IN  IF starts = {} THEN From(s, i)
        ELSE SubSeq(s, i, Min(starts) - 1)
                 \o RemoveHeaders(s, HeaderEnd(s, Min(starts), pattern), pattern)

\* text_processor.py 31-32: the loop over the header patterns
RECURSIVE RemoveAllHeaders(_, _)
RemoveAllHeaders(s, patterns) ==
    IF patterns = <<>> THEN s
    ELSE RemoveAllHeaders(RemoveHeaders(s, 1, Head(patterns)), Tail(patterns))

\* text_processor.py 35: re.sub(r'\n{3,}', '\n\n', s) from position i on
RECURSIVE CollapseBlankLines(_, _)
CollapseBlankLines(s, i) ==
    LET starts == {j \in i..Len(s) : RunEnd(s, j, {NL}) >= j + 3}
    IN  IF starts = {} THEN From(s, i)
        ELSE SubSeq(s, i, Min(starts) - 1) \o <<NL, NL>>
                 \o CollapseBlankLines(s, RunEnd(s, Min(starts), {NL}))

\* [ \t]
Blanks == {" ", "\t"}

\* text_processor.py 38: re.sub(r'[ \t]+$', '', s, flags=re.MULTILINE) from
\* position i on
RECURSIVE StripLineEnds(_, _)
StripLineEnds(s, i) ==
    LET starts == {j \in i..Len(s) :
                      s[j] \in Blanks /\ LineEnd(s, RunEnd(s, j, Blanks))}
    IN  IF starts = {} THEN From(s, i)
        ELSE SubSeq(s, i, Min(starts) - 1)
                 \o StripLineEnds(s, RunEnd(s, Min(starts), Blanks))

\* text_processor.py 28-43
clean_text(t) ==
    Only({Strip(StripLineEnds(collapsed, 1)) :
             collapsed \in {CollapseBlankLines(without_headers, 1) :
                               without_headers \in {RemoveAllHeaders(t, HEADER_PATTERNS)}}})

\* the lines of the texts cleaned: empty, of blanks, with text, with blanks
\* after text, page headers, a document number alone
CleanLines ==
    { <<>>,
      <<" ">>,
      <<"a">>,
      <<"a", " ", "\t">>,
      <<"1", "/", "2", " ", "R", "M", "0", " ", "R", "e", "v", " ", "6">>,
      <<"R", "M", "0", " ", "R", "e", "v", " ", "6", " ", "1", "/", "2">>,
      <<"R", "M", "0", " ", "a">>,
      <<"R", "M", "0">> }

CleanTexts == {Join(<<NL>>, ls) : ls \in UNION {[1..n -> CleanLines] : n \in 1..MaxCleanLines}}

CleanInit ==
    /\ raw_text \in CleanTexts
    /\ cleaned = <<>>
    /\ cleaned_again = <<>>
    /\ cleanpc = "start"

\* text_processor.py 28-43 on the text read from the file
CleanText ==
    /\ cleanpc = "start"
    /\ cleaned' = clean_text(raw_text)
    /\ cleanpc' = "cleaned"
    /\ UNCHANGED <<raw_text, cleaned_again>>
    /\ UNCHANGED nonCleanVars

\* text_processor.py 28-43 on a text that was cleaned before
CleanAgain ==
    /\ cleanpc = "cleaned"
    /\ cleaned_again' = clean_text(cleaned)
    /\ cleanpc' = "recleaned"
    /\ UNCHANGED <<raw_text, cleaned>>
    /\ UNCHANGED nonCleanVars

CleanIdle ==
    /\ raw_text = <<>>
    /\ cleaned = <<>>
    /\ cleaned_again = <<>>
    /\ cleanpc = "idle"

----------------------------------------------------------------------------
(* Specifications *)

ChunkIdle ==
    /\ text = <<>>
    /\ chunk_size = 1
    /\ chunk_overlap = 0
    /\ processor = "text"
    /\ chunks = <<>>
    /\ overlapped = <<>>
    /\ cpc = "idle"

SearchIdle ==
    /\ query = <<>>
    /\ top_k = 1
    /\ rerank = FALSE
    /\ rerank_local = FALSE
    /\ rerank_bge = FALSE
    /\ keyword_boost = FALSE
    /\ collection = <<>>
    /\ fetch_k = 0
    /\ results = <<>>
    /\ rerank_input = <<>>
    /\ rerank_top_n = 0
    /\ pre_boost = <<>>
    /\ warning = FALSE
    /\ output = <<>>
    /\ exit_code = -1
    /\ raised = "none"
    /\ spc = "idle"

vars == <<chunkVars, searchVars, sectionVars, keyTermVars, identifierVars, runVars, cliVars,
          embedVars,
          storeVars,
          cleanVars>>

ChunkNext == Split \/ AddOverlap

\* the ingestion pipeline on one text
IngestInit ==
    ChunkInit /\ SearchIdle /\ SectionIdle /\ KeyTermsIdle /\ IdentifiersIdle /\ RunIdle
    /\ CliIdle /\ EmbedIdle /\ StoreIdle /\ CleanIdle
Spec == IngestInit /\ [][ChunkNext]_vars

\* one run of cmd_search
CmdSearchInit ==
    ChunkIdle /\ SearchInit /\ SectionIdle /\ KeyTermsIdle /\ IdentifiersIdle /\ RunIdle
    /\ CliIdle /\ EmbedIdle /\ StoreIdle /\ CleanIdle
SpecSearch == CmdSearchInit /\ [][SearchNext]_vars

\* _apply_keyword_boost on one query and one candidate list
BoostNext == KeywordBoost
BoostOnlyInit ==
    ChunkIdle /\ BoostInit /\ SectionIdle /\ KeyTermsIdle /\ IdentifiersIdle /\ RunIdle
    /\ CliIdle /\ EmbedIdle /\ StoreIdle /\ CleanIdle
SpecBoost == BoostOnlyInit /\ [][BoostNext]_vars

\* split_by_sections on one document
SectionNext == SplitBySections
SectionsInit ==
    ChunkIdle /\ SearchIdle /\ SectionInit /\ KeyTermsIdle /\ IdentifiersIdle /\ RunIdle
    /\ CliIdle /\ EmbedIdle /\ StoreIdle /\ CleanIdle
SpecSections == SectionsInit /\ [][SectionNext]_vars

\* extract_key_terms on one chunk text
KeyTermsNext == ExtractKeyTerms
KeyTermsOnlyInit ==
    ChunkIdle /\ SearchIdle /\ SectionIdle /\ KeyTermsInit /\ IdentifiersIdle /\ RunIdle
    /\ CliIdle /\ EmbedIdle /\ StoreIdle /\ CleanIdle
SpecKeyTerms == KeyTermsOnlyInit /\ [][KeyTermsNext]_vars

\* both identifier patterns on one string
IdentifiersNext == ExtractQueryTerms \/ FindRegisters
IdentifiersOnlyInit ==
    ChunkIdle /\ SearchIdle /\ SectionIdle /\ KeyTermsIdle /\ IdentifiersInit /\ RunIdle
    /\ CliIdle /\ EmbedIdle /\ StoreIdle /\ CleanIdle
SpecIdentifiers == IdentifiersOnlyInit /\ [][IdentifiersNext]_vars

\* one ingestion run of process_file or process_pdf
RunNext == ProcessSection \/ ProcessPage \/ ReturnChunks
RunOnlyInit ==
    RunProcessors /\ SearchIdle /\ SectionIdle /\ KeyTermsIdle /\ IdentifiersIdle /\ RunInit
    /\ CliIdle /\ EmbedIdle /\ StoreIdle /\ CleanIdle
SpecRun == RunOnlyInit /\ [][RunNext]_vars

\* invocations of the command line, one after another
CliNext ==
    \/ NoCommand
    \/ CmdCreateDb
    \/ CmdListDbs
    \/ CmdDeleteDb
    \/ CmdIngest
    \/ CmdSearch
    \/ CmdListDocs
    \/ CmdDeleteDoc
CliOnlyInit ==
    ChunkIdle /\ SearchIdle /\ SectionIdle /\ KeyTermsIdle /\ IdentifiersIdle /\ RunIdle
    /\ CliInit /\ EmbedIdle /\ StoreIdle /\ CleanIdle
SpecCli == CliOnlyInit /\ [][CliNext]_vars

\* one call of embed
EmbedNext == EmbedBatch \/ EmbedReturn
EmbedOnlyInit ==
    ChunkIdle /\ SearchIdle /\ SectionIdle /\ KeyTermsIdle /\ IdentifiersIdle /\ RunIdle
    /\ CliIdle /\ EmbedInit /\ StoreIdle /\ CleanIdle
SpecEmbed == EmbedOnlyInit /\ [][EmbedNext]_vars

\* add_documents and delete_document on one collection, one after another
StoreNext == AddDocuments \/ DeleteDocument
StoreOnlyInit ==
    ChunkIdle /\ SearchIdle /\ SectionIdle /\ KeyTermsIdle /\ IdentifiersIdle /\ RunIdle
    /\ CliIdle /\ EmbedIdle /\ StoreInit /\ CleanIdle
SpecStore == StoreOnlyInit /\ [][StoreNext]_vars

\* clean_text on one text, and on what it returned
CleanNext == CleanText \/ CleanAgain
CleanOnlyInit ==
    ChunkIdle /\ SearchIdle /\ SectionIdle /\ KeyTermsIdle /\ IdentifiersIdle /\ RunIdle
    /\ CliIdle /\ EmbedIdle /\ StoreIdle /\ CleanInit
SpecClean == CleanOnlyInit /\ [][CleanNext]_vars

----------------------------------------------------------------------------
(* Properties of the chunking engine *)

SplitDone == cpc # "start"
OverlapDone == cpc = "done"

NonWhitespace(s) == SelectSeq(s, LAMBDA c : c \notin Spaces)
StartsWith(s, pre) == Len(s) >= Len(pre) /\ SubSeq(s, 1, Len(pre)) = pre
EndsWith(s, suf) == Len(s) >= Len(suf) /\ SubSeq(s, Len(s) - Len(suf) + 1, Len(s)) = suf
Occurrences(s, sub) ==
    Cardinality({i \in 1..(Len(s) - Len(sub) + 1) : SubSeq(s, i, i + Len(sub) - 1) = sub})

\* no separator of the hierarchy occurs in s: s is a segment that every level
\* of the hierarchy has already split
Atomic(s) == \A k \in 1..Len(DefaultSeparators) : ~Contains(s, DefaultSeparators[k])

\* C1: every chunk the recursive splitter returns has a token count within
\* the budget, except a chunk that is one segment left unsplit because the
\* separator hierarchy was exhausted while it still exceeded the budget.
C1_ChunksWithinBudget ==
    SplitDone =>
        \A i \in 1..Len(chunks) :
            count_tokens(chunks[i]) <= chunk_size \/ Atomic(chunks[i])

\* the splitter returned several chunks, one of them an unsplittable segment
\* over the budget and one of them within it
C1_Witness ==
    /\ SplitDone
    /\ Len(chunks) >= 2
    /\ \E i \in 1..Len(chunks) : count_tokens(chunks[i]) > chunk_size
    /\ \E i \in 1..Len(chunks) : count_tokens(chunks[i]) <= chunk_size

\* C2: concatenating the chunks in order reconstructs all non-whitespace
\* content of the input, in order and with no loss (the period of a ". "
\* separator on a chunk boundary included).
C2_NoContentLost ==
    SplitDone => NonWhitespace(Join(<<>>, chunks)) = NonWhitespace(text)

\* the last n tokens, and the first n tokens, of a token sequence
LastTokens(toks, n) == SubSeq(toks, Len(toks) - Min({n, Len(toks)}) + 1, Len(toks))
FirstTokens(toks, n) == SubSeq(toks, 1, Min({n, Len(toks)}))

\* the parts the overlap rule prescribes for chunk i with half = budget \div 2
PrescribedParts(cs, i, half) ==
    LET before == IF i > 1 THEN Strip(decode(LastTokens(encode(cs[i - 1]), half))) ELSE <<>>
        after == IF i < Len(cs) THEN Strip(decode(FirstTokens(encode(cs[i + 1]), half))) ELSE <<>>
    IN  (IF before # <<>> THEN <<Marker \o <<" ">> \o before>> ELSE <<>>)
        \o <<cs[i]>>
        \o (IF after # <<>> THEN <<after \o <<" ">> \o Marker>> ELSE <<>>)

\* C3: for every overlap budget >= 0 and n >= 2 chunks, the fragment put
\* before chunk i is decoded from the last `half` tokens (at most) of chunk
\* i-1 and the fragment put after it from the first `half` tokens (at most)
\* of chunk i+1; with half = 0 no overlap text is added on either side.
C3_OverlapFromHalfTokens ==
    (OverlapDone /\ Len(chunks) >= 2) =>
        \A i \in 1..Len(chunks) :
            overlapped[i] = Join(ParaBreak, PrescribedParts(chunks, i, chunk_overlap \div 2))

\* x is "[...] <fragment>" followed by a blank line, or nothing
LeadingParagraph(x) ==
    \/ x = <<>>
    \/ /\ StartsWith(x, Marker \o <<" ">>)
       /\ EndsWith(x, ParaBreak)
       /\ Len(x) > Len(Marker) + 1 + Len(ParaBreak)
       /\ Occurrences(x, Marker) = 1

\* x is a blank line followed by "<fragment> [...]", or nothing
TrailingParagraph(x) ==
    \/ x = <<>>
    \/ /\ StartsWith(x, ParaBreak)
       /\ EndsWith(x, <<" ">> \o Marker)
       /\ Len(x) > Len(Marker) + 1 + Len(ParaBreak)
       /\ Occurrences(x, Marker) = 1

\* out is chunk c unmodified, with at most one marked paragraph on each side
OverlapShape(out, c) ==
    \E p \in 1..(Len(out) - Len(c) + 1) :
        /\ SubSeq(out, p, p + Len(c) - 1) = c
        /\ LeadingParagraph(SubSeq(out, 1, p - 1))
        /\ TrailingParagraph(SubSeq(out, p + Len(c), Len(out)))

\* C4: add_overlap returns its input unchanged for 0 or 1 chunks; for n >= 2
\* chunks it returns n strings in the same order, output i holding chunk i's
\* text unmodified, preceded by at most one "[...] "-prefixed paragraph and
\* followed by at most one " [...]"-suffixed paragraph, joined by blank lines.
C4_OverlapShape ==
    OverlapDone =>
        /\ Len(chunks) <= 1 => overlapped = chunks
        /\ Len(overlapped) = Len(chunks)
        /\ \A i \in 1..Len(chunks) : OverlapShape(overlapped[i], chunks[i])

\* three chunks or more, the second one with a fragment on both sides
C4_Witness ==
    /\ OverlapDone
    /\ Len(chunks) >= 3
    /\ StartsWith(overlapped[2], Marker)
    /\ EndsWith(overlapped[2], Marker)
    /\ overlapped[1] # chunks[1]

----------------------------------------------------------------------------
(* Properties of the result fusion *)

\* _apply_keyword_boost has run (it is only called on a non-empty list)
BoostRan == pre_boost # <<>>

Range(seq) == {seq[i] : i \in 1..Len(seq)}

\* the candidate a result was made from, as it was handed to the boost
InputOf(r) == CHOOSE c \in Range(pre_boost) : c.metadata = r.metadata

\* the position of that candidate in the list handed to the boost
InputPosition(r) == CHOOSE k \in 1..Len(pre_boost) : pre_boost[k].metadata = r.metadata

\* what the boost added to a result's score
Credit(r) == r.score - InputOf(r).score

\* the words of s: its maximal runs of word characters
WordsOf(s) ==
    {SubSeq(s, i, RunEnd(s, i, WordChars) - 1) :
        i \in {k \in 1..Len(s) : s[k] \in WordChars /\ (k = 1 \/ s[k - 1] \notin WordChars)}}

\* the term occurs in t as a whole word, whatever the case of t
OccursAsWord(term, t) == term \in WordsOf(Upper(t))

\* the term is on a line of t that starts with the headline marker
OnHeadline(term, t) ==
    \E line \in Range(StrSplit(Upper(t), <<NL>>)) :
        StartsWith(line, RegisterDefinitionTag) /\ term \in WordsOf(line)

\* the boost the tiers prescribe for one term on a candidate text
Tier(term, t) ==
    IF ~OccursAsWord(term, t) THEN 0
    ELSE IF OnHeadline(term, t) THEN 20
    ELSE IF Contains(t, KeyTag) THEN 10
    ELSE 5

RECURSIVE TierSum(_, _)
TierSum(terms, t) ==
    IF terms = <<>> THEN 0 ELSE Tier(Head(terms), t) + TierSum(Tail(terms), t)

C6_WholeWordOnly ==
    BoostRan =>
        \A i \in 1..Len(results) :
            LET t == results[i].text
                whole == SelectSeq(QueryTerms(query), LAMBDA term : OccursAsWord(term, t))
            IN  /\ Credit(results[i]) = BoostOf(whole, t)
                /\ whole = <<>> => Credit(results[i]) = 0

\* the query holds a term that is part of a longer identifier of one
\* candidate, which gets no credit, and a whole word of another, which does
C6_Witness ==
    /\ BoostRan
    /\ query = QueryMapr
    /\ \E i \in 1..Len(results) :
           /\ SubstringSearch(AFIO_MAPR, Upper(results[i].text))
           /\ ~OccursAsWord(AFIO_MAPR, results[i].text)
           /\ Credit(results[i]) = 0
    /\ \E i \in 1..Len(results) : Credit(results[i]) > 0

\* C7: when the keyword boost runs on candidates that were not reranked,
\* every resulting candidate carries original_score, equal to its score just
\* before the boost, and keyword_boost, the total added, so that
\* score = original_score + keyword_boost; for every query.
C7_BoostRecordsOriginalScore ==
    (BoostRan /\ \A c \in Range(pre_boost) : "original_score" \notin DOMAIN c) =>
        \A i \in 1..Len(results) :
            /\ "original_score" \in DOMAIN results[i]
            /\ "keyword_boost" \in DOMAIN results[i]
            /\ results[i].original_score = InputOf(results[i]).score
            /\ results[i].score = results[i].original_score + results[i].keyword_boost

\* the similarity score the index gave the document a result comes from
Similarity(r) == 100 - collection[r.metadata].distance

\* C8: once original_score is set on a result no later step overwrites it:
\* it is the candidate's similarity score at every later position of the
\* search, and in a search with both reranking and keyword boost every
\* returned result carries it.
C8_OriginalScoreKept ==
    /\ \A r \in Range(results) \cup Range(output) :
           "original_score" \in DOMAIN r => r.original_score = Similarity(r)
    /\ (spc = "returned" /\ do_rerank /\ ~warning /\ keyword_boost) =>
           \A r \in Range(output) : "original_score" \in DOMAIN r

\* a search that reranked, boosted and returned a result whose score is
\* neither its similarity nor its relevance alone
C8_Witness ==
    /\ spc = "returned"
    /\ do_rerank /\ ~warning /\ keyword_boost
    /\ \E r \in Range(output) :
           /\ "keyword_boost" \in DOMAIN r
           /\ r.keyword_boost > 0
           /\ r.original_score # r.score - r.keyword_boost

\* C9: the keyword boost returns the candidates by descending post-boost
\* score, and two candidates with equal post-boost score keep the relative
\* order they had in the input list.
C9_StableDescending ==
    BoostRan =>
        \A i, j \in 1..Len(results) :
            i < j =>
                /\ results[i].score >= results[j].score
                /\ results[i].score = results[j].score =>
                       InputPosition(results[i]) < InputPosition(results[j])

\* the boost reordered the list and left a tie between two candidates that
\* came in with different scores
C9_Witness ==
    /\ BoostRan
    /\ \E i \in 1..Len(results) : InputPosition(results[i]) # i
    /\ \E i, j \in 1..Len(results) :
           /\ i < j
           /\ results[i].score = results[j].score
           /\ InputOf(results[i]).score # InputOf(results[j]).score

\* C10: if the reranker cannot be constructed, whatever the reason, the
\* search does not abort: no exception of get_reranker leaves cmd_search.
C10_ConstructionFailureTolerated ==
    ~(spc = "raised" /\ raised \in {"ValueError", "ImportError", "OSError"})

----------------------------------------------------------------------------
(* Properties of cmd_search *)

\* the rerank call was made (reranker.rerank was entered)
RerankCalled == rerank_top_n # 0

\* what store.search returned: the nearest fetch_k documents of the collection
Fetched == [i \in 1..Min({fetch_k, Len(collection)}) |-> FormatResult(collection[i])]

\* C11: if the rerank call itself fails after the reranker was constructed,
\* the search skips the rerank stage and still returns results: no exception
\* of the rerank call leaves cmd_search.
C11_RerankFailureTolerated ==
    ~(RerankCalled /\ spc = "raised" /\ raised \in RerankCallErrors(Provider))

\* C12: the similarity search is asked for exactly top_k * 5 candidates when
\* reranking (any provider) or keyword boost is requested, and for exactly
\* top_k candidates when neither is.
C12_CandidateOverFetch ==
    spc \notin {"idle", "start"} =>
        /\ (rerank \/ rerank_local \/ rerank_bge \/ keyword_boost) => fetch_k = top_k * 5
        /\ ~(rerank \/ rerank_local \/ rerank_bge \/ keyword_boost) => fetch_k = top_k
        /\ spc = "searched" => results = Fetched

\* keyword boost alone widened the pool: more candidates than top_k came back
C12_Witness ==
    /\ spc = "searched"
    /\ keyword_boost /\ ~do_rerank
    /\ fetch_k = 5
    /\ Len(results) > top_k

\* C13: the reranker is called with the full fetched candidate set and with
\* top_n equal to the fetch size; every result it returns is one of the
\* input candidates with the relevance as score and the candidate's prior
\* score as original_score; the input records are not modified.
C13_RerankKeepsAllCandidates ==
    RerankCalled =>
        /\ rerank_top_n = fetch_k
        /\ rerank_input = Fetched
        /\ spc = "reranked" =>
               /\ Len(results) = Len(rerank_input)
               /\ \A i \in 1..Len(results) :
                      \E j \in 1..Len(rerank_input) :
                          /\ results[i].text = rerank_input[j].text
                          /\ results[i].metadata = rerank_input[j].metadata
                          /\ DOMAIN results[i] = DOMAIN rerank_input[j] \cup {"original_score"}
                          /\ results[i].original_score = rerank_input[j].score
                          /\ results[i].score \in RelevanceScores

\* a rerank call that was handed more candidates than top_k, kept them all
\* and put the second nearest first
C13_Witness ==
    /\ RerankCalled
    /\ spc = "reranked"
    /\ rerank_top_n > top_k
    /\ Len(results) > top_k
    /\ results[1].metadata = 2
    /\ results[1].score # results[1].original_score

\* C14: the final result list has at most top_k entries and is the first
\* top_k entries of the candidate list as ordered after the last
\* post-processing step; no step before the printing shortens the list.
C14_TruncationLast ==
    /\ spc \in {"searched", "reranked", "boosted", "returned"} =>
           Len(results) = Len(Fetched)
    /\ BoostRan => /\ Len(pre_boost) = Len(Fetched)
                   /\ spc \in {"boosted", "returned"} =>
                          results = apply_keyword_boost(query, pre_boost)
    /\ spc = "returned" =>
           /\ Len(output) <= top_k
           /\ output = SubSeq(results, 1, Min({top_k, Len(results)}))

\* a search that reranked and boosted more candidates than top_k and printed
\* one that the similarity search had not ranked first
C14_Witness ==
    /\ spc = "returned"
    /\ RerankCalled /\ BoostRan
    /\ Len(results) > top_k
    /\ Len(output) = top_k
    /\ output[1].metadata # 1

\* C16: every chunk the recursive splitter returns contains non-whitespace
\* content, and the splitter returns no chunk at all only for a text without
\* non-whitespace content.
C16_ChunksNonWhitespace ==
    SplitDone =>
        /\ \A i \in 1..Len(chunks) : NonWhitespace(chunks[i]) # <<>>
        /\ chunks = <<>> => NonWhitespace(text) = <<>>

----------------------------------------------------------------------------
(* Properties of the text processor *)

\* the lines of the document handed to split_by_sections
InputLines == StrSplit(document, <<NL>>)

\* the number of '#' a line starts with
LeadingHashes(line) == RunEnd(line, 1, {"#"}) - 1

\* a header line: 1 to 4 leading '#', then whitespace, then a title
IsHeaderLine(line) ==
    LET h == LeadingHashes(line)
    IN  /\ h \in 1..4
        /\ \E m \in 1..Len(line) :
               /\ h + m < Len(line)
               /\ \A i \in (h + 1)..(h + m) : line[i] \in Spaces

\* the header line a line belongs to: the nearest one before it (0: none)
OwnerOf(i) == Max({0} \cup {j \in 1..(i - 1) : IsHeaderLine(InputLines[j])})

\* the elements of a set of numbers in ascending order
RECURSIVE Ascending(_)
Ascending(S) == IF S = {} THEN <<>> ELSE <<Min(S)>> \o Ascending(S \ {Min(S)})

\* the lines that are not header lines and belong to header line o, in input order
OwnedLines(o) ==
    LET idx == Ascending({i \in 1..Len(InputLines) :
                             ~IsHeaderLine(InputLines[i]) /\ OwnerOf(i) = o})
    IN  [k \in DOMAIN idx |-> InputLines[idx[k]]]

RECURSIVE Concat(_)
Concat(seqs) == IF seqs = <<>> THEN <<>> ELSE Head(seqs) \o Concat(Tail(seqs))

\* C17: every input line that is not a header line is in the content of
\* exactly one emitted section, in input order, under the nearest preceding
\* header (or under an initial section with empty header and level 0); no
\* section without content lines is emitted; sections are in document order.
C17_SectionSegmentation ==
    secpc = "done" =>
        LET owners == Ascending({OwnerOf(i) : i \in {j \in 1..Len(InputLines) :
                                                        ~IsHeaderLine(InputLines[j])}})
            plain == Ascending({i \in 1..Len(InputLines) : ~IsHeaderLine(InputLines[i])})
        IN  /\ Concat([k \in DOMAIN sections |-> sections[k].content])
                   = [k \in DOMAIN plain |-> InputLines[plain[k]]]
            /\ \A k \in DOMAIN sections : sections[k].content # <<>>
            /\ Len(sections) = Len(owners)
            /\ \A k \in DOMAIN sections :
                   LET o == owners[k]
                   IN  /\ sections[k].content = OwnedLines(o)
                       /\ o = 0 => sections[k].header = <<>> /\ sections[k].level = 0
                       /\ o # 0 =>
                              /\ sections[k].level = LeadingHashes(InputLines[o])
                              /\ sections[k].header =
                                     Strip(From(InputLines[o], sections[k].level + 1))

\* a document with text before the first header, a header without content
\* lines and a header with content lines: two sections come out of three
C17_Witness ==
    /\ secpc = "done"
    /\ Len(sections) = 2
    /\ sections[1].level = 0
    /\ sections[2].level = 2
    /\ Cardinality({i \in 1..Len(InputLines) : IsHeaderLine(InputLines[i])}) = 2

\* the string extract_key_terms returned
Annotation == kt_locals.returned

\* the distinct elements of a list, in the order they are first seen
FirstSeen(xs) ==
    LET firsts == Ascending({i \in 1..Len(xs) : \A j \in 1..(i - 1) : xs[j] # xs[i]})
    IN  [k \in DOMAIN firsts |-> xs[firsts[k]]]

\* the distinct identifiers found in the text
Identifiers == FirstSeen(kt_locals.registers)

\* a line of the text is the separator row of a markdown table: a '|', cells
\* of blanks, '-' and ':', a second '|', and more of these up to the line end
HasSeparatorRow(t) ==
    LET lines == StrSplit(t, <<NL>>)
    IN  \E r \in 1..Len(lines) :
            /\ Len(lines[r]) >= 4
            /\ lines[r][1] = "|"
            /\ \E p \in 3..(Len(lines[r]) - 1) :
                   /\ lines[r][p] = "|"
                   /\ \A j \in 2..(p - 1) : lines[r][j] \in {" ", "-", ":"}
                   /\ \A j \in (p + 1)..Len(lines[r]) : lines[r][j] \in {" ", "-", ":", "|"}

\* the text is a register definition: a table and "Address offset:"
IsRegisterDefinition == HasSeparatorRow(kt_text) /\ Contains(kt_text, AddressOffsetLabel)

\* the part of the annotation before "[KEY: " and the terms listed after it
Headline == SubSeq(Annotation, 1, Find(Annotation, KeyOpen) - 1)
AnnotationTerms ==
    IF Annotation = <<>> THEN <<>>
    ELSE StrSplit(SubSeq(Annotation, Find(Annotation, KeyOpen) + Len(KeyOpen),
                         Len(Annotation) - Len(KeyClose)),
                  TermSeparator)

\* the identifiers among the terms of the annotation, in annotation order
ListedIdentifiers ==
    LET ids == Identifiers
    IN  SelectSeq(AnnotationTerms, LAMBDA x : \E k \in 1..Len(ids) : ids[k] = x)

\* no heuristic of extract_key_terms found anything in the text
NoHeuristicFired ==
    /\ ~HasSeparatorRow(kt_text)
    /\ Identifiers = <<>>
    /\ kt_locals.offset_match = <<>>
    /\ kt_locals.reset_match = <<>>
    /\ kt_locals.fields = <<>>

\* C18: outside a register definition, 4 or more distinct identifiers give
\* the OVERVIEW:register_list marker and none of the identifiers as terms,
\* and 1 to 3 distinct identifiers are listed as terms, deduplicated in
\* first-seen order; in a register definition (table and "Address offset:")
\* the REGISTER DEFINITION headline names the first identifier and at most 5
\* identifiers are listed; the annotation is empty exactly when no heuristic
\* fired.
C18_KeyTermAnnotation ==
    ktpc = "done" =>
        LET ids == Identifiers
            terms == AnnotationTerms
            listed == ListedIdentifiers
            definition == IsRegisterDefinition
        IN  /\ (~definition /\ Len(ids) >= 4) =>
                   /\ \E k \in 1..Len(terms) : terms[k] = OverviewTerm
                   /\ listed = <<>>
                   /\ Headline = <<>>
            /\ (~definition /\ Len(ids) \in 1..3) =>
                   /\ listed = ids
                   /\ \A k \in 1..Len(terms) : terms[k] # OverviewTerm
                   /\ Headline = <<>>
            /\ (definition /\ ids # <<>>) =>
                   /\ Headline = RegisterTitleHead \o ids[1] \o RegisterTitleTail
                   /\ Len(listed) <= 5
                   /\ listed = SubSeq(ids, 1, Min({5, Len(ids)}))
            /\ Annotation = <<>> <=> NoHeuristicFired

\* a register definition that names six distinct identifiers: five are
\* listed after the headline
C18_Witness ==
    /\ ktpc = "done"
    /\ IsRegisterDefinition
    /\ Len(Identifiers) = 6
    /\ Len(ListedIdentifiers) = 5
    /\ Headline # <<>>

\* C19: for every string, the set of identifiers the keyword boost extracts
\* from it as a query equals the set of identifiers extract_key_terms finds
\* in it as chunk text.
C19_SameIdentifierPattern ==
    idpc = "done" =>
        {id_query_terms[k] : k \in 1..Len(id_query_terms)}
            = {id_registers[k] : k \in 1..Len(id_registers)}

\* C15: in one ingestion run, for every document and every extra_metadata
\* mapping of the caller, the chunk_index values in the metadata of the
\* emitted chunks strictly increase in emission order across all sections
\* or pages, and every chunk's metadata has source equal to the document's
\* identifier.
C15_ChunkIndexIncreases ==
    runpc \in {"loop", "returned"} =>
        /\ \A i, j \in 1..Len(all_chunks) :
               i < j => all_chunks[i].metadata["chunk_index"]
                            < all_chunks[j].metadata["chunk_index"]
        /\ \A i \in 1..Len(all_chunks) : all_chunks[i].metadata["source"] = run_source

----------------------------------------------------------------------------
(* Properties of the command line *)

\* the chunks stored in all databases, as a map from <<database, source>>
StoredChunks(dbs) ==
    [key \in {<<d, s>> \in DbNames \X Paths : d \in DOMAIN dbs /\ s \in DOMAIN dbs[d]} |->
        dbs[key[1]][key[2]]]

\* the last invocation named a database that did not exist
OnMissingDatabase == command.db_name \notin DOMAIN databases_before

\* the last invocation is a user-facing error: a missing database, an
\* existing one for create-db, a missing file, an unsupported extension, a
\* document that is not in the database, no command at all
UserError ==
    \/ command.name = ""
    \/ command.name = "create-db" /\ ~OnMissingDatabase
    \/ command.name \in {"delete-db", "ingest", "search", "list-docs", "delete-doc"}
           /\ OnMissingDatabase
    \/ command.name = "ingest"
           /\ \/ command.file_path \notin Files
              \/ \A e \in {<<"p", "d", "f">>, <<"m", "d">>, <<"t", "x", "t">>,
                           <<"P", "D", "F">>, <<"M", "D">>, <<"T", "X", "T">>} :
                     ~EndsWith(command.file_path, <<".">> \o e)
    \/ command.name = "delete-doc"
           /\ ~OnMissingDatabase
           /\ command.doc_name \notin DOMAIN databases_before[command.db_name]

\* C20: every command exits with 0 or 1, and with 1 on a user-facing error;
\* ingest, search, list-docs, delete-doc and delete-db on a database that
\* does not exist exit with 1 and leave the databases as they were (the
\* database is not created); create-db on an existing database exits with 1
\* and leaves it as it was; ingest of a missing file or of an unsupported
\* extension exits with 1 and adds no chunk; a command that exits with 0
\* did what it is for
C20_ExitCodes ==
    command.name \notin {"none", "idle"} =>
        /\ status \in {0, 1}
        /\ UserError => status = 1 /\ databases = databases_before
        /\ UserError /\ command.name = "ingest" =>
               StoredChunks(databases) = StoredChunks(databases_before)
        /\ command.name # "create-db" /\ command.name # "" /\ command.name # "list-dbs"
               /\ OnMissingDatabase =>
               command.db_name \notin DOMAIN databases
        /\ status = 0 =>
               /\ ~UserError
               /\ command.name = "create-db" =>
                      /\ command.db_name \in DOMAIN databases
                      /\ DOMAIN databases[command.db_name] = {}
               /\ command.name = "delete-db" => command.db_name \notin DOMAIN databases
               /\ command.name \in {"list-dbs", "search", "list-docs"} =>
                      databases = databases_before
               /\ command.name = "delete-doc" =>
                      command.doc_name \notin DOMAIN databases[command.db_name]
               /\ command.name \in {"ingest", "delete-doc"} =>
                      \A d \in DbNames \ {command.db_name} :
                          /\ d \in DOMAIN databases <=> d \in DOMAIN databases_before
                          /\ d \in DOMAIN databases => databases[d] = databases_before[d]

\* an ingest into a database that does not exist, while another database
\* exists and holds chunks
C20_Witness ==
    /\ command.name = "ingest"
    /\ command.file_path \in Files
    /\ OnMissingDatabase
    /\ status = 1
    /\ \E d \in DOMAIN databases : DOMAIN databases[d] # {}

----------------------------------------------------------------------------
(* Properties of the embedding *)

\* C21: embed submits the batches in input order, one per pass and none of
\* more than BATCH_SIZE texts, so that the batches sent so far, put end to
\* end, are the first texts of the input; the vectors collected are those
\* of these texts in the same order; what embed returns has the length of
\* the input and its i-th vector is the embedding of the i-th text
C21_EmbeddingKeepsOrder ==
    embpc \in {"loop", "returned"} =>
        LET sent == Concat(submitted)
        IN  /\ Len(sent) = Min({emb_i, Len(emb_texts)})
            /\ sent = SubSeq(emb_texts, 1, Len(sent))
            /\ \A b \in 1..Len(submitted) :
                   /\ Len(submitted[b]) <= BATCH_SIZE
                   /\ b < Len(submitted) => Len(submitted[b]) = BATCH_SIZE
                   /\ submitted[b] # <<>>
            /\ Len(all_embeddings) = Len(sent)
            /\ \A i \in 1..Len(all_embeddings) :
                   all_embeddings[i] = EmbeddingOf(emb_texts[i])
            /\ embpc = "returned" => Len(all_embeddings) = Len(emb_texts)

\* embed has returned for a list that takes more than one batch and whose
\* length is not a multiple of the batch size
C21_Witness ==
    /\ embpc = "returned"
    /\ Len(emb_texts) > BATCH_SIZE
    /\ Len(emb_texts) % BATCH_SIZE # 0
    /\ Len(submitted) >= 2
    /\ \E i, j \in 1..Len(emb_texts) : emb_texts[i] # emb_texts[j]

----------------------------------------------------------------------------
(* Properties of the key-term tier *)

\* the terms of the [KEY: ...] annotation of t: the words between the
\* marker and the bracket that closes it, none if t has no annotation
KeyTermsListed(t) ==
    LET open == Find(t, KeyTag)
        rest == From(t, open + Len(KeyTag))
        close == Find(rest, <<"]">>)
    IN  IF open = 0 THEN {}
        ELSE WordsOf(Upper(IF close = 0 THEN rest ELSE SubSeq(rest, 1, close - 1)))

\* the boost for one term when the middle tier is kept for the terms the
\* annotation lists
ListedTier(term, t) ==
    IF ~OccursAsWord(term, t) THEN 0
    ELSE IF OnHeadline(term, t) THEN 20
    ELSE IF term \in KeyTermsListed(t) THEN 10
    ELSE 5

RECURSIVE ListedTierSum(_, _)
ListedTierSum(terms, t) ==
    IF terms = <<>> THEN 0 ELSE ListedTier(Head(terms), t) + ListedTierSum(Tail(terms), t)

\* C24: the keyword boost adds 0.10 for a query term only when the term is
\* one of the terms of the candidate's [KEY: ...] annotation; a term that
\* occurs only in the body of the candidate adds 0.05, also when the
\* candidate has an annotation that does not list it (such as
\* OVERVIEW:register_list)
C24_KeyTierOnlyForListedTerms ==
    BoostRan =>
        \A i \in 1..Len(results) :
            Credit(results[i]) = ListedTierSum(QueryTerms(query), results[i].text)

----------------------------------------------------------------------------
(* Properties of the collection *)

\* C22: the ids add_documents computes for new chunks differ from one
\* another and from the id of every chunk stored when it is called,
\* whatever add_documents and delete_document operations came before
C22_GeneratedIdsUnique ==
    store_op = "add" =>
        /\ \A i, j \in 1..Len(new_ids) : i # j => new_ids[i] # new_ids[j]
        /\ \A i \in 1..Len(new_ids) : new_ids[i] \notin DOMAIN store_before

----------------------------------------------------------------------------
(* Properties of the cleaning *)

\* C23: what clean_text returns holds no three line breaks in a row, no
\* line that ends in a space or a tab, and no whitespace at its start or
\* its end; and clean_text returns a text it has returned before as it is
C23_CleanTextNormalForm ==
    /\ cleanpc \in {"cleaned", "recleaned"} =>
           /\ \A i \in 1..(Len(cleaned) - 2) :
                  ~(cleaned[i] = NL /\ cleaned[i + 1] = NL /\ cleaned[i + 2] = NL)
           /\ \A i \in 1..Len(cleaned) :
                  cleaned[i] \in Blanks => ~LineEnd(cleaned, i + 1)
           /\ cleaned # <<>> =>
                  cleaned[1] \notin Spaces /\ cleaned[Len(cleaned)] \notin Spaces
    /\ cleanpc = "recleaned" => cleaned_again = cleaned

====
